---- MODULE Spec2Model ----
(***************************************************************************)
(* Porto Tech News worker (src/src/index.js): the categorisation, scoring, *)
(* resolution, summarisation and report-assembly pipeline.                 *)
(*                                                                         *)
(* Text is a sequence of characters.  The characters are                   *)
(*   "a"   a letter            "."   a sentence terminator (. ! ?)         *)
(*   "NL"  a line break        "SP"  a blank                               *)
(*   "1"   a digit             "<" ">"  the delimiters of an HTML tag      *)
(*   "H"   the literal text "Title:"                                       *)
(*   "T"   the text of the article's (non-empty) title                     *)
(*   "P"   the prompt sent to the generation service, echoed back          *)
(*   "K"   the literal text "Content:" followed by the prompt's excerpt     *)
(* and one character for each fixed sentence of the source (fillers,       *)
(* placeholders), which contain neither a line break nor a terminator      *)
(* that matters to the code that handles them.                             *)
(***************************************************************************)
EXTENDS Integers, Sequences, FiniteSets, TLC

----------------------------------------------------------------------------
(* Bounds *)

\* text units in an article body and in the service's reply, together
MaxUnits == 5

----------------------------------------------------------------------------
(* Text helpers: JavaScript String and RegExp operations on sequences *)

IsSpace(c) == c \in {"SP", "NL"}

RECURSIVE Flatten(_)
Flatten(ss) == IF ss = << >> THEN << >> ELSE Head(ss) \o Flatten(Tail(ss))

RECURSIVE JoinLines(_)
JoinLines(ls) ==
  IF ls = << >> THEN << >>
  ELSE IF Len(ls) = 1 THEN ls[1]
  ELSE ls[1] \o <<"NL">> \o JoinLines(Tail(ls))

RECURSIVE SplitFrom(_, _)
SplitFrom(s, cur) ==
  IF s = << >> THEN <<cur>>
  ELSE IF Head(s) = "NL" THEN <<cur>> \o SplitFrom(Tail(s), << >>)
  ELSE SplitFrom(Tail(s), Append(cur, Head(s)))

SplitLines(s) == SplitFrom(s, << >>)

RECURSIVE TrimLeft(_)
TrimLeft(s) == IF s # << >> /\ IsSpace(Head(s)) THEN TrimLeft(Tail(s)) ELSE s

RECURSIVE TrimRight(_)
TrimRight(s) ==
  IF s # << >> /\ IsSpace(s[Len(s)]) THEN TrimRight(SubSeq(s, 1, Len(s) - 1)) ELSE s

Trim(s) == TrimRight(TrimLeft(s))

IsBlank(s) == Trim(s) = << >>

Includes(s, t) ==
  \E i \in 1..(Len(s) - Len(t) + 1) : SubSeq(s, i, i + Len(t) - 1) = t

SelectNonBlank(ls) == SelectSeq(ls, LAMBDA l : ~IsBlank(l))

Take(s, n) == SubSeq(s, 1, IF Len(s) < n THEN Len(s) ELSE n)

Terminators == {"."}

Spaces == {"SP", "NL"}

\* index of the first position >= i of s whose character is in cs, or 0
RECURSIVE FirstIn(_, _, _)
FirstIn(s, i, cs) ==
  IF i > Len(s) THEN 0 ELSE IF s[i] \in cs THEN i ELSE FirstIn(s, i + 1, cs)

\* end of the run of characters in cs that starts at i: the first position >= i
\* whose character is not in cs, or Len(s)+1
RECURSIVE RunIn(_, _, _)
RunIn(s, i, cs) ==
  IF i > Len(s) THEN i ELSE IF s[i] \in cs THEN RunIn(s, i + 1, cs) ELSE i

\* end of the run of characters not in cs that starts at i
RECURSIVE RunNotIn(_, _, _)
RunNotIn(s, i, cs) ==
  IF i > Len(s) THEN i ELSE IF s[i] \notin cs THEN RunNotIn(s, i + 1, cs) ELSE i

\* s.match(/[^.!?]+[.!?]+/g) || []
RECURSIVE MatchSentences(_)
MatchSentences(s) ==
  LET start == RunIn(s, 1, Terminators)
      body  == RunNotIn(s, start, Terminators)
      stop  == RunIn(s, body, Terminators)
  IN  IF start > Len(s) \/ body > Len(s) THEN << >>
      ELSE <<SubSeq(s, start, stop - 1)>> \o MatchSentences(SubSeq(s, stop, Len(s)))

\* s.replace(/<[^>]*>/g, '')
RECURSIVE StripTags(_)
StripTags(s) ==
  IF s = << >> THEN << >>
  ELSE IF Head(s) = "<"
    THEN LET close == FirstIn(s, 2, {">"})
         IN  IF close = 0 THEN s ELSE StripTags(SubSeq(s, close + 1, Len(s)))
    ELSE <<Head(s)>> \o StripTags(Tail(s))

\* s.replace(/\s+/g, ' ')
RECURSIVE CollapseSpace(_)
CollapseSpace(s) ==
  IF s = << >> THEN << >>
  ELSE IF IsSpace(Head(s))
    THEN <<"SP">> \o CollapseSpace(SubSeq(s, RunIn(s, 1, Spaces), Len(s)))
    ELSE <<Head(s)>> \o CollapseSpace(Tail(s))

----------------------------------------------------------------------------
(* Summarizer: generateArticleSummary and createFallbackArticleSummary *)

\* 'No content available for this article.\nNo additional details found.\n
\*  Check the original source for more information.'
NoContentSummary == <<"N1", "NL", "N2", "NL", "N3">>

\* `Additional information available in the original article.`
FallbackFiller == <<"F">>

\* the pool genericSentences
GenericSentences == {<<"G1">>, <<"G2">>, <<"G3">>, <<"G4">>, <<"G5">>}

RECURSIVE PadTo3(_, _)
PadTo3(lines, filler) ==
  IF Len(lines) < 3 THEN PadTo3(Append(lines, filler), filler) ELSE lines

\* a fallback that forgets to strip the HTML tags
createFallbackArticleSummary_KeepTags(content) ==
  IF content = << >> THEN NoContentSummary
  ELSE LET sentences == MatchSentences(Trim(CollapseSpace(content)))
       IN  JoinLines(Take(PadTo3(sentences, FallbackFiller), 3))

createFallbackArticleSummary(content) ==
  IF content = << >> THEN NoContentSummary
  ELSE LET cleanContent == Trim(CollapseSpace(StripTags(content)))
           sentences    == MatchSentences(cleanContent)
       IN  IF Len(sentences) >= 3
             THEN JoinLines(Take(sentences, 3))
             ELSE JoinLines(Take(PadTo3(sentences, FallbackFiller), 3))

\* The JSON value the service answers with.  shape: "array" (data[0] is the
\* record below), "emptyarray", "object" (data is the record) or "null";
\* gen/sum: the generated_text / summary_text field, Absent when missing.
Absent == <<"absent">>

Truthy(field) == field # Absent /\ field # << >>

Payload(shape, gen, sum) == [shape |-> shape, gen |-> gen, sum |-> sum]

\* lines 1100-1110: "text" with the extracted text, "fallback" when no shape
\* matches, "throw" when reading a property of null raises a TypeError
ExtractSummaryText(data) ==
  IF data.shape = "array" /\ Truthy(data.gen)
    THEN [kind |-> "text", text |-> data.gen]
  ELSE IF data.shape = "null"
    THEN [kind |-> "throw", text |-> << >>]
  ELSE IF data.shape = "object" /\ Truthy(data.gen)
    THEN [kind |-> "text", text |-> data.gen]
  ELSE IF data.shape = "array" /\ Truthy(data.sum)
    THEN [kind |-> "text", text |-> data.sum]
  ELSE [kind |-> "fallback", text |-> << >>]

\* summaryText.replace(prompt, ''): the first occurrence only
StripPrompt(s) ==
  LET i == FirstIn(s, 1, {"P"})
  IN  IF i = 0 THEN s ELSE SubSeq(s, 1, i - 1) \o SubSeq(s, i + 1, Len(s))

\* What lines 1121-1129 leave of a copy of the prompt (lines 1053-1064): the
\* sentences of its first line and the block from "IMPORTANT RULES:" to its
\* last word "line" are removed; the blank between the two sentences, the
\* blank lines, the "Title:" line and the
\* "Content:" line ("K") remain.
PromptResidue(title) ==
  <<"SP", "NL", "SP", "SP", "SP", "SP", "NL", "H">> \o title
    \o <<"NL", "NL", "K", "NL", "NL">>

\* lines 1121-1129 on a text whose only instruction phrases are echoed prompts
RECURSIVE StripInstructions(_, _)
StripInstructions(s, title) ==
  IF s = << >> THEN << >>
  ELSE (IF Head(s) = "P" THEN PromptResidue(title) ELSE <<Head(s)>>)
         \o StripInstructions(Tail(s), title)

\* s.replace(/Title:.*?\n/gi, '') for h = "H",
\* s.replace(/Content:.*?\n/gi, '') for h = "K"
RECURSIVE StripHeaderLine(_, _)
StripHeaderLine(s, h) ==
  IF s = << >> THEN << >>
  ELSE IF Head(s) = h
    THEN LET nl == FirstIn(s, 2, {"NL"})
         IN  IF nl = 0 THEN s ELSE StripHeaderLine(SubSeq(s, nl + 1, Len(s)), h)
    ELSE <<Head(s)>> \o StripHeaderLine(Tail(s), h)

\* s.replace(/^\d+\.\s*/gm, ''), scanning from position i of s
RECURSIVE StripNumberingFrom(_, _)
StripNumberingFrom(s, i) ==
  IF i > Len(s) THEN << >>
  ELSE LET atLineStart == i = 1 \/ s[i - 1] = "NL"
           digitsEnd   == RunIn(s, i, {"1"})
       IN  IF atLineStart /\ digitsEnd > i /\ digitsEnd <= Len(s) /\ s[digitsEnd] = "."
             THEN StripNumberingFrom(s, RunIn(s, digitsEnd + 1, Spaces))
             ELSE <<s[i]>> \o StripNumberingFrom(s, i + 1)

StripNumbering(s) == StripNumberingFrom(s, 1)

\* lines 1112-1144: the prompt, the instruction phrases, the "Title:" and
\* "Content:" lines and leading numbering are stripped
CleanSummary(summaryText, title) ==
  LET noPrompt  == Trim(StripPrompt(summaryText))
      noPhrases == StripInstructions(noPrompt, title)
      noHeaders == StripHeaderLine(StripHeaderLine(noPhrases, "H"), "K")
  IN  Trim(Trim(StripNumbering(noHeaders)))

\* lines 1146-1157
SelectSentences(cleanSummary) ==
  LET sentenceMatches == MatchSentences(cleanSummary)
      lineMatches     == SelectNonBlank(SplitLines(cleanSummary))
  IN  IF Len(sentenceMatches) >= 3 THEN JoinLines(Take(sentenceMatches, 3))
      ELSE IF Len(lineMatches) >= 3 THEN JoinLines(Take(lineMatches, 3))
      ELSE cleanSummary

\* the padding loop without the splice of line 1179: a sentence can be drawn
\* again
RECURSIVE Draws_WithReplacement(_, _)
Draws_WithReplacement(pool, n) ==
  IF n = 0 THEN {<< >>}
  ELSE UNION {{<<g>> \o rest : rest \in Draws_WithReplacement(pool, n - 1)} : g \in pool}

\* the sequences the padding loop of lines 1174-1180 can append: n sentences
\* drawn from the pool, each removed from the pool once used
RECURSIVE Draws(_, _)
Draws(pool, n) ==
  IF n = 0 THEN {<< >>}
  ELSE UNION {{<<g>> \o rest : rest \in Draws(pool \ {g}, n - 1)} : g \in pool}

\* lines 1160-1186: the summaries the padding (a random draw) can produce
PadSummary(cleanSummary) ==
  LET finalLines == SelectNonBlank(SplitLines(cleanSummary))
  IN  IF Len(finalLines) < 3
        THEN {JoinLines(finalLines \o d) : d \in Draws(GenericSentences, 3 - Len(finalLines))}
      ELSE IF Len(finalLines) > 3 THEN {JoinLines(Take(finalLines, 3))}
      ELSE {cleanSummary}

\* lines 1188-1195
HasArtifacts(cleanSummary, title) ==
  \/ Includes(cleanSummary, title)
  \/ Includes(cleanSummary, <<"H">>)
  \/ Includes(cleanSummary, <<"K">>)

\* lines 1112-1197: what generateArticleSummary can return for extracted text
PostProcess(summaryText, title, content) ==
  {IF HasArtifacts(c, title) THEN createFallbackArticleSummary(content) ELSE c :
     c \in PadSummary(SelectSentences(CleanSummary(summaryText, title)))}

\* What the generation service does with one request: the request throws
\* ("throw"), answers with a non-2xx status ("status"), answers 2xx with a
\* body that is not JSON ("badjson"), or answers 2xx with a JSON value.
Outcome(kind, data) == [kind |-> kind, data |-> data]

NoData == Payload("null", Absent, Absent)

\* lines 1076-1202: the summaries generateArticleSummary can return once
\* the request has been issued
SummariesAfterRequest(article, o) ==
  IF o.kind \in {"throw", "status", "badjson"}
    THEN {createFallbackArticleSummary(article.content)}
  ELSE LET x == ExtractSummaryText(o.data)
       IN  IF x.kind = "text"
             THEN PostProcess(x.text, article.title, article.content)
             ELSE {createFallbackArticleSummary(article.content)}

----------------------------------------------------------------------------
(* Article text for categorisation and scoring.  Besides "a", ".", "SP" a  *)
(* title, a body or a publisher name holds lower-case words, each one      *)
(* character of the text alphabet:                                         *)
(*   "porto" "portugal" "lisbon" "tech" "ai" "funding" "market" "join us"  *)
(*   "launched" "event" "news" "investment" "growth" "acquired" "sign up"  *)
(*                                      (words of titles and bodies)       *)
(*   "techinporto" "techcrunch" "wired" "sifted" "eco"  (publisher names)  *)

\* the strings the code searches for that occur in each word
Needles(atom) ==
  CASE atom = "porto"       -> {"porto"}
    [] atom = "portugal"    -> {"portugal", "portug"}
    [] atom = "lisbon"      -> {"lisbon", "lisbo[an]"}
    [] atom = "tech"        -> {"tech"}
    [] atom = "ai"          -> {"ai"}
    [] atom = "funding"     -> {"funding"}
    [] atom = "market"      -> {"market"}
    [] atom = "join us"     -> {"join us"}
    [] atom = "launched"    -> {"launched", "launch"}
    [] atom = "event"       -> {"event"}
    [] atom = "investment"  -> {"investment"}
    [] atom = "growth"      -> {"growth"}
    [] atom = "acquired"    -> {"acquired"}
    [] atom = "sign up"     -> {"sign up"}
    [] atom = "techinporto" -> {"techinporto", "porto", "tech"}
    [] atom = "techcrunch"  -> {"techcrunch", "tech"}
    [] atom = "wired"       -> {"wired"}
    [] OTHER                -> {}

\* the number of JavaScript characters of each character of the alphabet
Width(atom) ==
  CASE atom \in {"porto", "event", "wired"}                 -> 5
    [] atom \in {"portugal", "launched", "acquired"}        -> 8
    [] atom \in {"lisbon", "market", "sifted", "growth"}    -> 6
    [] atom = "investment"                                  -> 10
    [] atom = "tech"                                        -> 4
    [] atom = "ai"                                          -> 2
    [] atom \in {"funding", "join us", "sign up"}           -> 7
    [] atom = "news"                                        -> 4
    [] atom = "eco"                                         -> 3
    [] atom = "techinporto"                                 -> 11
    [] atom = "techcrunch"                                  -> 10
    [] OTHER                                                -> 1

\* text.length
RECURSIVE TextLength(_)
TextLength(text) ==
  IF Len(text) = 0 THEN 0
  ELSE IF Len(text) = 1 THEN Width(text[1])
  ELSE LET half == Len(text) \div 2
       IN  TextLength(SubSeq(text, 1, half))
             + TextLength(SubSeq(text, half + 1, Len(text)))

\* text.includes(needle)
Contains(text, needle) == \E i \in 1..Len(text) : needle \in Needles(text[i])

\* text.includes(n) for some n of needles; pattern.test(text) for an alternation
ContainsAny(text, needles) == \E n \in needles : Contains(text, n)

\* text.split(needle).length - 1; text.match(/n1|n2|../g).length
CountAny(text, needles) ==
  Cardinality({i \in 1..Len(text) : Needles(text[i]) \cap needles # {}})

\* text.indexOf(needle), for a needle the text contains
IndexOf(text, needle) ==
  LET i == CHOOSE k \in 1..Len(text) :
             /\ needle \in Needles(text[k])
             /\ \A j \in 1..(k - 1) : needle \notin Needles(text[j])
  IN  TextLength(SubSeq(text, 1, i - 1))

\* a property that is undefined (article.title, article.sourceCategory)
Undefined == <<"undefined">>

\* x || '' for a text property
OrEmpty(x) == IF x = Undefined THEN << >> ELSE x

----------------------------------------------------------------------------
(* RelevanceScorer: calculateRelevanceScore.  Scores are in thousandths of *)
(* a point; the logarithms are rounded to the thousandth.                  *)

MAX_TITLE_MATCH_SCORE == 40000

MAX_CONTENT_MATCH_SCORE == 30000

MAX_SOURCE_SCORE == 15000

MAX_LENGTH_SCORE == 10000

MAX_CONTENT_VALUE_SCORE == 25000

Min2(a, b) == IF a < b THEN a ELSE b

Max2(a, b) == IF a > b THEN a ELSE b

\* categoryKeywords[category] || []
categoryKeywords(category) ==
  CASE category = "pt_tech" ->
         <<"portugal", "portuguese", "porto", "lisbon", "lisboa", "braga",
           "aveiro", "coimbra", "tech", "technology", "empresa", "startup">>
    [] category = "global_tech" ->
         <<"tech", "technology", "ai", "artificial intelligence",
           "machine learning", "cloud", "product", "launch", "software", "digital">>
    [] OTHER -> << >>

RECURSIVE SumOver(_, _)
SumOver(f, idx) ==
  IF idx = {} THEN 0
  ELSE LET i == CHOOSE j \in idx : TRUE IN f[i] + SumOver(f, idx \ {i})

\* lines 866-877, before the cap: each keyword found in the title scores
\* 4 + 8 * (1 - position / title.length)
TitleMatchScore(title, keywords) ==
  LET found == {k \in 1..Len(keywords) : Contains(title, keywords[k])}
      pos   == [k \in found |-> IndexOf(title, keywords[k])]
  IN  IF found = {} THEN 0
      ELSE (12000 * Cardinality(found) * TextLength(title) - 8000 * SumOver(pos, found))
             \div TextLength(title)

\* Math.log(matches) * 3, in thousandths
Log3(matches) ==
  CASE matches = 1 -> 0
    [] matches = 2 -> 2079
    [] matches = 3 -> 3296
    [] matches = 4 -> 4159
    [] matches = 5 -> 4828
    [] matches = 6 -> 5375
    [] matches = 7 -> 5838
    [] OTHER       -> 6238

\* lines 880-890, before the cap
ContentMatchScore(content, keywords) ==
  LET found == {k \in 1..Len(keywords) : Contains(content, keywords[k])}
      pts   == [k \in found |->
                  Min2(8000, 2000 + Log3(CountAny(content, {keywords[k]})))]
  IN  SumOver(pts, found)

\* highQualitySources, in the order Object.entries yields them
highQualitySources ==
  << <<"techinporto", 15000>>, <<"portugaltechnews", 15000>>, <<"eco.sapo", 15000>>,
     <<"dinheirovivo", 15000>>, <<"techcrunch", 12000>>, <<"wired", 14000>>,
     <<"the new stack", 13000>>, <<"hacker news", 14000>>, <<"infoq", 13000>>,
     <<"techmeme", 12000>> >>

\* lines 908-913: the first entry of the table the publisher name contains
SourceScore(sourceName) ==
  LET hits == {k \in 1..Len(highQualitySources) :
                 Contains(sourceName, highQualitySources[k][1])}
  IN  IF hits = {} THEN 0
      ELSE highQualitySources[CHOOSE k \in hits : \A j \in hits : k <= j][2]

\* Math.log(Math.max(100, contentLength)) * 1.5, in thousandths: exact up to
\* 100 characters, and beyond that the value at the upper end of each bracket;
\* the logarithm passes 10 between 785 and 786 characters
LengthLog(contentLength) ==
  CASE contentLength <= 100 -> 6908
    [] contentLength <= 150 -> 7516
    [] contentLength <= 250 -> 8282
    [] contentLength <= 400 -> 8987
    [] contentLength <= 600 -> 9596
    [] contentLength <= 785 -> 9999
    [] OTHER                -> 10362

\* lines 917-922
LengthScore(content) ==
  IF content = << >> THEN 0 ELSE Min2(MAX_LENGTH_SCORE, LengthLog(TextLength(content)))

fundingPatterns ==
  {"$\\d+", "raised?\\s+\\d+", "funding", "investment", "round", "seed", "series [a-c]"}

marketAnalysisPatterns ==
  {"market", "industry", "sector", "competiti(ve|on)", "growing", "growth",
   "expand", "trend", "future", "forecast", "analysis", "report", "data shows"}

promotionalPatterns ==
  {"is coming to", "join us", "register for", "don't miss", "sign up",
   "limited spots", "early bird", "special offer"}

milestonePatterns ==
  {"acquisition", "acquired", "merger", "ipo", "public offering", "unicorn",
   "billion.+valuation", "breakthrough", "milestone", "launched", "releasing",
   "announces"}

\* lines 926-999 without the breaks: every matching pattern counts
ContentValueScore_PerPattern(text) ==
  15000 * Cardinality({p \in fundingPatterns : Contains(text, p)})
    + 10000 * Cardinality({p \in marketAnalysisPatterns : Contains(text, p)})
    - 15000 * Cardinality({p \in promotionalPatterns : Contains(text, p)})
    + 12000 * Cardinality({p \in milestonePatterns : Contains(text, p)})

\* lines 926-999, before the clamp
ContentValueScore(text) ==
  (IF ContainsAny(text, fundingPatterns) THEN 15000 ELSE 0)
    + (IF ContainsAny(text, marketAnalysisPatterns) THEN 10000 ELSE 0)
    - (IF ContainsAny(text, promotionalPatterns) THEN 15000 ELSE 0)
    + (IF ContainsAny(text, milestonePatterns) THEN 12000 ELSE 0)

\* lines 1007-1012 with the test ptMatches.length > 1
CategoryBoost_TwoSuffice(text, category) ==
  IF category = "pt_tech" /\ CountAny(text, {"portug", "porto", "lisbo[an]"}) > 1
    THEN 15000 ELSE 0

\* lines 1007-1012: /portug|porto|lisbo[an]/gi
CategoryBoost(text, category) ==
  IF category = "pt_tech" /\ CountAny(text, {"portug", "porto", "lisbo[an]"}) > 2
    THEN 15000 ELSE 0

\* lines 1015-1031, without the cap of the title component
ScoreComponents_NoTitleCap(art, category) ==
  LET title    == OrEmpty(art.title)
      content  == art.content
      keywords == categoryKeywords(category)
  IN  [titleMatch    |-> TitleMatchScore(title, keywords),
       contentMatch  |-> Min2(ContentMatchScore(content, keywords), MAX_CONTENT_MATCH_SCORE),
       source        |-> SourceScore(art.source),
       length        |-> LengthScore(content),
       contentValue  |-> Min2(Max2(0, ContentValueScore(title \o content)),
                              MAX_CONTENT_VALUE_SCORE),
       categoryBoost |-> CategoryBoost(title \o content, category)]

\* lines 1015-1031: the record saved as article._scoreDetails
ScoreComponents(art, category) ==
  LET title    == OrEmpty(art.title)
      content  == art.content
      keywords == categoryKeywords(category)
  IN  [titleMatch    |-> Min2(TitleMatchScore(title, keywords), MAX_TITLE_MATCH_SCORE),
       contentMatch  |-> Min2(ContentMatchScore(content, keywords), MAX_CONTENT_MATCH_SCORE),
       source        |-> SourceScore(art.source),
       length        |-> LengthScore(content),
       contentValue  |-> Min2(Max2(0, ContentValueScore(title \o content)),
                              MAX_CONTENT_VALUE_SCORE),
       categoryBoost |-> CategoryBoost(title \o content, category)]

\* lines 845-1037, adding the boost an earlier call recorded on the article
calculateRelevanceScore_ReadsDetails(art, category) ==
  LET c == ScoreComponents(art, category)
  IN  c.titleMatch + c.contentMatch + c.source + c.length + c.contentValue
        + c.categoryBoost + art.scoreDetails.categoryBoost

\* lines 845-1037: the returned score; article._scoreDetails is written (line
\* 1034) and never read
calculateRelevanceScore(art, category) ==
  LET c == ScoreComponents(art, category)
  IN  c.titleMatch + c.contentMatch + c.source + c.length + c.contentValue
        + c.categoryBoost

----------------------------------------------------------------------------
(* Categorizer and CategoryResolver: groupArticlesByCategory.  An article  *)
(* is a record [guid, link, title, content, source, sourceCategory, age];  *)
(* a missing guid, link or sourceCategory is "" (falsy), a missing title   *)
(* is Undefined, a missing body is the empty text.                         *)

NewsItem(guid, link, title, content, source, sourceCategory, age) ==
  [guid |-> guid, link |-> link, title |-> title, content |-> content,
   source |-> source, sourceCategory |-> sourceCategory, age |-> age]

\* article.guid || article.link || article.id (feed items carry no id)
getArticleId(art) == IF art.guid # "" THEN art.guid ELSE art.link

Range(seq) == {seq[i] : i \in 1..Len(seq)}

\* Set.prototype.add on a set kept in insertion order
SetAdd(cats, c) == IF c \in Range(cats) THEN cats ELSE Append(cats, c)

\* lines 462-465
WithHint(cats, art) ==
  IF art.sourceCategory # "" /\ art.sourceCategory # "general"
    THEN SetAdd(cats, art.sourceCategory) ELSE cats

\* lines 470-480
IsPortuguese(art) ==
  \/ ContainsAny(art.source, {"porto", "portugal"})
  \/ ContainsAny(art.title, {"portugal", "porto", "lisbon", "lisboa"})
  \/ ContainsAny(art.content, {"portugal", "portuguese", "porto"})

\* lines 485-493
IsEvent(art) ==
  \/ ContainsAny(art.title, {"event", "conference", "meetup", "webinar"})
  \/ ContainsAny(art.content, {"join us", "register now", "save the date"})

\* lines 470-495
WithRules(cats, art) ==
  LET pt == IF IsPortuguese(art) THEN SetAdd(cats, "pt_tech") ELSE cats
  IN  IF IsEvent(art) THEN SetAdd(pt, "events") ELSE pt

\* lines 498-500, without the test of line 498
WithDefault_Always(cats) == SetAdd(cats, "global_tech")

\* lines 498-500
WithDefault(cats) == IF Len(cats) = 0 THEN SetAdd(cats, "global_tech") ELSE cats

\* lines 460-500: the candidate set of an id after one more article with it
Categorize(cats, art) == WithDefault(WithRules(WithHint(cats, art), art))

EntryIndex(map, id) == {k \in 1..Len(map) : map[k].id = id}

\* lines 438-501: one iteration of the first loop, for an article with a title
TrackArticle(map, art) ==
  IF art.link = "" THEN map
  ELSE LET id    == getArticleId(art)
           known == IF EntryIndex(map, id) # {} THEN map
                    ELSE Append(map, [id |-> id, article |-> art, categories |-> << >>])
           k     == CHOOSE j \in EntryIndex(known, id) : TRUE
       IN  [known EXCEPT ![k].categories = Categorize(@, art)]

RECURSIVE TrackAll(_, _)
TrackAll(map, arts) ==
  IF arts = << >> THEN map ELSE TrackAll(TrackArticle(map, Head(arts)), Tail(arts))

\* lines 504-513: the scores of an entry's article, one per candidate
ScoresOf(entry) ==
  [c \in Range(entry.categories) |-> calculateRelevanceScore(entry.article, c)]

\* lines 518-527, with a tie going to the later candidate
RECURSIVE BestFrom_LastWins(_, _, _, _)
BestFrom_LastWins(cats, scores, i, best) ==
  IF i > Len(cats) THEN best
  ELSE IF scores[cats[i]] >= best.highestScore
    THEN BestFrom_LastWins(cats, scores, i + 1,
           [bestCategory |-> cats[i], highestScore |-> scores[cats[i]]])
  ELSE BestFrom_LastWins(cats, scores, i + 1, best)

\* lines 518-527: the loop over the candidates from position i on
RECURSIVE BestFrom(_, _, _, _)
BestFrom(cats, scores, i, best) ==
  IF i > Len(cats) THEN best
  ELSE IF scores[cats[i]] > best.highestScore
    THEN BestFrom(cats, scores, i + 1,
           [bestCategory |-> cats[i], highestScore |-> scores[cats[i]]])
  ELSE BestFrom(cats, scores, i + 1, best)

\* an entry after the second and third loop: scored and resolved
Resolved(entry) ==
  LET scores == ScoresOf(entry)
      best   == BestFrom(entry.categories, scores, 1,
                         [bestCategory |-> "null", highestScore |-> -1000])
  IN  [id |-> entry.id, article |-> entry.article, categories |-> entry.categories,
       scores |-> scores, bestCategory |-> best.bestCategory,
       highestScore |-> best.highestScore]

\* lines 532-537; _scoreDetails is what the last call of calculateRelevanceScore
\* left on the article, the call for the last candidate
CategorizedArticle(entry) ==
  [guid |-> entry.article.guid, link |-> entry.article.link,
   title |-> entry.article.title, content |-> entry.article.content,
   source |-> entry.article.source, sourceCategory |-> entry.article.sourceCategory,
   age |-> entry.article.age,
   scoreDetails |-> ScoreComponents(entry.article,
                                    entry.categories[Len(entry.categories)]),
   originalLink |-> entry.article.link,
   relevanceScore |-> entry.highestScore,
   finalCategory |-> entry.bestCategory]

\* lines 516-541: the articles pushed to one output category, in map order
RECURSIVE ArticlesOf(_, _)
ArticlesOf(map, category) ==
  IF map = << >> THEN << >>
  ELSE IF Head(map).bestCategory = category
    THEN <<CategorizedArticle(Head(map))>> \o ArticlesOf(Tail(map), category)
  ELSE ArticlesOf(Tail(map), category)

\* article.title.toLowerCase() throws a TypeError for an article without title
TitleThrows(arts) == \E i \in 1..Len(arts) : arts[i].title = Undefined

NoGroups == [pt_tech |-> << >>, global_tech |-> << >>]

groupArticlesByCategory(arts) ==
  IF TitleThrows(arts)
    THEN [threw |-> TRUE, articleMap |-> << >>, categories |-> NoGroups]
  ELSE LET tracked == TrackAll(<< >>, arts)
           map     == [k \in 1..Len(tracked) |-> Resolved(tracked[k])]
       IN  [threw |-> FALSE, articleMap |-> map,
            categories |-> [pt_tech     |-> ArticlesOf(map, "pt_tech"),
                            global_tech |-> ArticlesOf(map, "global_tech")]]

----------------------------------------------------------------------------
(* Report-level generation: processModelResponse.  The text the service    *)
(* returns for the whole-report prompt is a sequence over                  *)
(*   "{" "}" "[" "]" ","  the JSON punctuation                             *)
(*   "pt:" "gl:" "k:"     a quoted key with its colon: "pt_tech":,         *)
(*                        "global_tech":, any other key                    *)
(*   "v"                  a JSON string                                    *)
(*   "w"                  words that are not JSON                          *)
(*   "t"                  the words 'tech news'                            *)
(*   "NL"                 a line break                                     *)

JsonKeys == {"pt:", "gl:", "k:"}

\* JSON.stringify(data) of a payload without a usable text field
Stringify(data) ==
  IF data.shape = "array" THEN <<"[", "{", "k:", "v", "}", "]">>
  ELSE <<"{", "k:", "v", "}">>

\* lines 752-778: resultText, or the TypeError of JSON.stringify(data[0]).substring
\* for an empty array and of Object.keys(data) for null
ExtractReportText(data) ==
  CASE data.shape \in {"emptyarray", "null"} -> [kind |-> "throw", text |-> << >>]
    [] Truthy(data.gen) -> [kind |-> "text", text |-> data.gen]
    [] Truthy(data.sum) -> [kind |-> "text", text |-> data.sum]
    [] OTHER            -> [kind |-> "text", text |-> Stringify(data)]

\* resultText.match(/\{[\s\S]*?\}(?=\n|$)/): from the first "{" to the first
\* "}" after it that ends the text or a line; << >> when there is none
JsonMatch(text) ==
  LET opens  == {i \in 1..Len(text) : text[i] = "{"}
      first  == CHOOSE i \in opens : \A j \in opens : i <= j
      closes == {j \in 1..Len(text) :
                   /\ opens # {} /\ j > first /\ text[j] = "}"
                   /\ (j = Len(text) \/ text[j + 1] = "NL")}
  IN  IF closes = {} THEN << >>
      ELSE SubSeq(text, first, CHOOSE j \in closes : \A k \in closes : j <= k)

\* JSON.parse skips white space between tokens
RECURSIVE SkipWs(_, _)
SkipWs(s, i) == IF i <= Len(s) /\ s[i] = "NL" THEN SkipWs(s, i + 1) ELSE i

\* the position after the JSON value that starts at i, 0 for a syntax error
RECURSIVE ValueEnd(_, _)
RECURSIVE MembersEnd(_, _, _)
RECURSIVE ElementsEnd(_, _, _)
ValueEnd(s, i) ==
  LET j == SkipWs(s, i)
  IN  IF j > Len(s) THEN 0
      ELSE CASE s[j] = "v" -> j + 1
             [] s[j] = "{" -> MembersEnd(s, j + 1, TRUE)
             [] s[j] = "[" -> ElementsEnd(s, j + 1, TRUE)
             [] OTHER      -> 0

MembersEnd(s, i, first) ==
  LET j == SkipWs(s, i)
  IN  IF j > Len(s) THEN 0
      ELSE IF s[j] = "}" THEN (IF first THEN j + 1 ELSE 0)
      ELSE IF s[j] \notin JsonKeys THEN 0
      ELSE LET e == ValueEnd(s, j + 1)
               k == SkipWs(s, e)
           IN  IF e = 0 \/ k > Len(s) THEN 0
               ELSE IF s[k] = "," THEN MembersEnd(s, k + 1, FALSE)
               ELSE IF s[k] = "}" THEN k + 1
               ELSE 0

ElementsEnd(s, i, first) ==
  LET j == SkipWs(s, i)
  IN  IF j > Len(s) THEN 0
      ELSE IF s[j] = "]" THEN (IF first THEN j + 1 ELSE 0)
      ELSE LET e == ValueEnd(s, j)
               k == SkipWs(s, e)
           IN  IF e = 0 \/ k > Len(s) THEN 0
               ELSE IF s[k] = "," THEN ElementsEnd(s, k + 1, FALSE)
               ELSE IF s[k] = "]" THEN k + 1
               ELSE 0

\* JSON.parse(jsonString) returns, for a text that starts with "{"
ParsesAsJson(s) ==
  LET e == ValueEnd(s, 1) IN e # 0 /\ SkipWs(s, e) > Len(s)

\* the members of the object whose first key is at i: <<key, value tokens>>
RECURSIVE MembersFrom(_, _)
MembersFrom(s, i) ==
  LET j == SkipWs(s, i)
  IN  IF s[j] = "}" THEN << >>
      ELSE LET e == ValueEnd(s, j + 1)
               k == SkipWs(s, e)
               member == <<s[j], SelectSeq(SubSeq(s, j + 1, e - 1), LAMBDA c : c # "NL")>>
           IN  IF s[k] = "," THEN <<member>> \o MembersFrom(s, k + 1)
               ELSE <<member>>

\* the property name a key token stands for
KeyName(key) ==
  CASE key = "pt:" -> "pt_tech"
    [] key = "gl:" -> "global_tech"
    [] OTHER       -> "other"

\* the object JSON.parse returns: each property with the tokens of its value,
\* a repeated key keeping its last value
ParsedObject(s) ==
  LET members == MembersFrom(s, SkipWs(s, 1) + 1)
  IN  [name \in {KeyName(members[m][1]) : m \in 1..Len(members)} |->
         members[CHOOSE m \in 1..Len(members) :
                   /\ KeyName(members[m][1]) = name
                   /\ \A n \in (m + 1)..Len(members) :
                        KeyName(members[n][1]) # name][2]]

\* lines 811-814: the text mentions 'tech news', 'pt_tech', 'global_tech'
MentionsTopics(text) == Range(text) \cap {"t", "pt:", "gl:"} # {}

\* lines 750-839: which return statement is reached, and the parsed object
\* when it is the one of line 799
processModelResponse(data) ==
  LET extracted == ExtractReportText(data)
      jsonString == JsonMatch(extracted.text)
  IN  IF extracted.kind = "throw" THEN [via |-> "throw", parsed |-> << >>]
      ELSE IF jsonString # << >>
        THEN IF ParsesAsJson(jsonString)
               THEN [via |-> "parsed", parsed |-> ParsedObject(jsonString)]
             ELSE [via |-> "fallback", parsed |-> << >>]
      ELSE IF MentionsTopics(extracted.text) THEN [via |-> "topics", parsed |-> << >>]
      ELSE [via |-> "fallback", parsed |-> << >>]

----------------------------------------------------------------------------
(* ReportAssembler: createReportFromTopArticles *)

\* line 1262: article.relevanceScore || calculateRelevanceScore(article, category)
ScoreFor(art, category) ==
  IF art.relevanceScore # 0 THEN art.relevanceScore
  ELSE calculateRelevanceScore(art, category)

\* Array.prototype.sort with (a, b) => b.score - a.score, placing an article
\* before the articles of equal score that precede it in the input
RECURSIVE InsertByScore_Unstable(_, _, _)
InsertByScore_Unstable(sorted, art, category) ==
  IF sorted = << >> THEN <<art>>
  ELSE IF ScoreFor(Head(sorted), category) > ScoreFor(art, category)
    THEN <<Head(sorted)>> \o InsertByScore_Unstable(Tail(sorted), art, category)
  ELSE <<art>> \o sorted

\* line 1266: Array.prototype.sort is stable; one insertion into a sorted list
RECURSIVE InsertByScore(_, _, _)
InsertByScore(sorted, art, category) ==
  IF sorted = << >> THEN <<art>>
  ELSE IF ScoreFor(Head(sorted), category) >= ScoreFor(art, category)
    THEN <<Head(sorted)>> \o InsertByScore(Tail(sorted), art, category)
  ELSE <<art>> \o sorted

RECURSIVE SortByScore(_, _)
SortByScore(arts, category) ==
  IF arts = << >> THEN << >>
  ELSE InsertByScore(SortByScore(SubSeq(arts, 1, Len(arts) - 1), category),
                     arts[Len(arts)], category)

TopCount == 3

\* lines 1315-1317, taking one article more
topArticles_OneMore(arts, category) == Take(SortByScore(arts, category), TopCount + 1)

\* lines 1260-1317
topArticles(arts, category) == Take(SortByScore(arts, category), TopCount)

\* the articles summarised, in order: the loops of lines 1250 and 1320
SelectedArticles(groups) ==
  [i \in 1..Len(topArticles(groups.pt_tech, "pt_tech")) |->
     [category |-> "pt_tech", article |-> topArticles(groups.pt_tech, "pt_tech")[i]]]
  \o
  [i \in 1..Len(topArticles(groups.global_tech, "global_tech")) |->
     [category |-> "global_tech",
      article  |-> topArticles(groups.global_tech, "global_tech")[i]]]

\* lines 1330-1336
ReportItem(art, details) ==
  [headline |-> art.title, details |-> details, link |-> art.originalLink,
   source |-> art.source, relevanceScore |-> art.relevanceScore]

\* lines 1353-1357 and 1361-1365: the placeholder of an empty category; its
\* details are one sentence
Placeholder(category) ==
  IF category = "pt_tech"
    THEN [headline |-> <<"No recent Portuguese tech news found">>,
          details  |-> <<"NoPortugueseNews">>,
          link     |-> "https://www.portugaltechnews.com/"]
  ELSE [headline |-> <<"No recent global tech news found">>,
        details  |-> <<"NoGlobalNews">>,
        link     |-> "https://news.ycombinator.com/"]

EmptyReport == [pt_tech |-> << >>, global_tech |-> << >>]

\* lines 1352-1366, pushing the placeholders whatever the categories hold
WithPlaceholders_Always(entries) ==
  [pt_tech     |-> Append(entries.pt_tech, Placeholder("pt_tech")),
   global_tech |-> Append(entries.global_tech, Placeholder("global_tech"))]

\* lines 1352-1366
WithPlaceholders(entries) ==
  [pt_tech     |-> IF Len(entries.pt_tech) = 0
                     THEN <<Placeholder("pt_tech")>> ELSE entries.pt_tech,
   global_tech |-> IF Len(entries.global_tech) = 0
                     THEN <<Placeholder("global_tech")>> ELSE entries.global_tech]

\* lines 626-637: the metadata generateSummary adds when callHuggingFace returned
ReportMeta(groups) ==
  [total_articles |-> Len(groups.pt_tech) + Len(groups.global_tech),
   categories     |-> [pt_tech |-> Len(groups.pt_tech),
                       global_tech |-> Len(groups.global_tech)],
   ai_used        |-> TRUE]

----------------------------------------------------------------------------
(* generateArticleSummary as a state machine over one article *)

VARIABLES
  article,    \* the article being summarised
  apiKey,     \* env.HUGGINGFACE_API_KEY is set
  svcText,    \* the text the generation service answers with, if it answers
  sumPc,      \* "idle", "start", "await" (request in flight), "done"
  reply,      \* how the request ended: "none" before, then "throw", "status",
              \* "badjson", "unrecognized" (no accepted shape) or "text"
  summary,    \* the returned string
  requests,   \* requests issued to the generation service for this article
  pc,         \* where generateReport is: "idle", "fetch", "group", "call",
              \* "primary", "backup" (report-level request in flight),
              \* "assemble", "summarize", "save", "done"
  articles,   \* what fetchArticles returned
  seenStore,  \* env.SEEN_ARTICLES: the ids stored, each with its time to live
  articleMap, \* the articleMap of groupArticlesByCategory after its loops
  grouped,    \* what groupArticlesByCategory returned
  hfRequests, \* report-level requests issued by callHuggingFace
  hfReply,    \* how the last report-level request ended: "none", "nokey",
              \* "throw", "status", "badjson" or "payload"
  via,        \* which statement built the report: "none", "parsed" (line 799),
              \* "topics" (line 829) or "fallback" (generateFallbackReport)
  pending,    \* the selected articles still to be summarised
  draft,      \* the report createReportFromTopArticles is filling
  report,     \* what generateSummary returned
  stored,     \* env.REPORTS: the reports saved
  lastReport, \* globalThis.lastReport
  outcome,    \* how generateReport ended: "none", "no_articles", "error", "saved"
  feeds,      \* what the feeds answered to fetchArticles: the items they held
              \* and the feeds whose request or parse failed; dropped once the
              \* articles are grouped
  emails,     \* the reports handed to the email provider
  request,    \* the last HTTP request the fetch handler received
  response,   \* the response it returned
  launched,   \* how many times the fetch handler called generateReport
  call        \* calls of one function taken on their own: the arguments,
              \* where each call is and what it returned

sumVars == <<article, apiKey, svcText, sumPc, reply, summary, requests>>

runVars == <<pc, articles, seenStore, articleMap, grouped, hfRequests, hfReply,
             via, pending, draft, report, stored, lastReport, outcome>>

httpVars == <<request, response, launched>>

auxVars == <<feeds, emails, httpVars, call>>

vars == <<sumVars, runVars, auxVars>>

NoArticle == [title |-> << >>, content |-> << >>]

NoReport == [entries |-> << >>, meta |-> << >>]

NoFeeds == [present |-> {}, failed |-> {}]

NoRequest == [seq |-> 0, path |-> "", method |-> "", format |-> ""]

NoResponse == [status |-> 0, type |-> "", body |-> "", report |-> NoReport]

NoCall == [fn |-> "none"]

\* the worker before any report generation has started
RunIdle ==
  /\ pc = "idle"
  /\ articles = << >>
  /\ seenStore = {}
  /\ articleMap = << >>
  /\ grouped = NoGroups
  /\ hfRequests = 0
  /\ hfReply = "none"
  /\ via = "none"
  /\ pending = << >>
  /\ draft = EmptyReport
  /\ report = NoReport
  /\ stored = {}
  /\ lastReport = NoReport
  /\ outcome = "none"
  /\ feeds = NoFeeds
  /\ emails = {}
  /\ request = NoRequest
  /\ response = NoResponse
  /\ launched = 0

BodyUnits == {<<"a", ".">>, <<"a">>, <<"<", "a", ">">>, <<"SP">>}

GenUnits ==
  {<<"a", ".">>, <<"a">>, <<"NL">>, <<"1", ".">>, <<"H">>, <<"T">>, <<"P">>}

\* texts of exactly n units
RECURSIVE ExactTexts(_, _)
ExactTexts(units, n) ==
  IF n = 0 THEN {<< >>}
  ELSE {t \o u : t \in ExactTexts(units, n - 1), u \in units}

Texts(units, n) == UNION {ExactTexts(units, k) : k \in 0..n}

\* article.title || '' : an article without a title has title << >>
Titles == {<< >>, <<"T">>}

Article(title, content) == [title |-> title, content |-> content]

InitSummary ==
  /\ \E nb \in 0..MaxUnits :
       /\ \E t \in Titles, c \in ExactTexts(BodyUnits, nb) : article = Article(t, c)
       /\ apiKey \in BOOLEAN
       /\ svcText \in IF apiKey /\ nb > 0 THEN Texts(GenUnits, MaxUnits - nb) ELSE {<< >>}
  /\ sumPc = "start"
  /\ reply = "none"
  /\ summary = << >>
  /\ requests = 0
  /\ RunIdle
  /\ call = NoCall

\* lines 1042-1089 with the test of the API key before the test of the body
SumBegin_KeyFirst ==
  /\ sumPc = "start"
  /\ IF ~apiKey
       THEN /\ sumPc' = "done"
            /\ summary' = createFallbackArticleSummary(article.content)
            /\ requests' = requests
     ELSE sumPc' = "await" /\ summary' = summary /\ requests' = requests + 1
  /\ UNCHANGED <<article, apiKey, svcText, reply, runVars, auxVars>>

\* lines 1042-1089: up to the request
SumBegin ==
  /\ sumPc = "start"
  /\ IF article.content = << >>
       THEN sumPc' = "done" /\ summary' = NoContentSummary /\ requests' = requests
     ELSE IF ~apiKey
       THEN /\ sumPc' = "done"
            /\ summary' = createFallbackArticleSummary(article.content)
            /\ requests' = requests
     ELSE sumPc' = "await" /\ summary' = summary /\ requests' = requests + 1
  /\ UNCHANGED <<article, apiKey, svcText, reply, runVars, auxVars>>

ServiceOutcomes(text) ==
  {Outcome(k, NoData) : k \in {"throw", "status", "badjson"}}
    \cup {Outcome("json", Payload(sh, text, Absent)) : sh \in {"array", "object"}}
    \cup {Outcome("json", Payload(sh, Absent, text)) : sh \in {"array", "object"}}
    \cup {Outcome("json", Payload(sh, Absent, Absent)) :
            sh \in {"array", "object", "emptyarray", "null"}}

ReplyClass(o) ==
  IF o.kind # "json" THEN o.kind
  ELSE IF ExtractSummaryText(o.data).kind = "text" THEN "text" ELSE "unrecognized"

\* lines 1089-1202: from the response o to the return
SumRespondWith(o) ==
  /\ sumPc = "await"
  /\ reply' = ReplyClass(o)
  /\ summary' \in SummariesAfterRequest(article, o)
  /\ sumPc' = "done"
  /\ UNCHANGED <<article, apiKey, svcText, requests, runVars, auxVars>>

SumRespond == \E o \in ServiceOutcomes(svcText) : SumRespondWith(o)

NextSummary == SumBegin \/ SumRespond

SpecSummary == InitSummary /\ [][NextSummary]_vars

\* the same machine with a generation service that never returns text: any
\* body of up to MaxUnits units, with or without API key
InitUnusable ==
  /\ \E t \in Titles, c \in Texts(BodyUnits, MaxUnits) : article = Article(t, c)
  /\ apiKey \in BOOLEAN
  /\ svcText = << >>
  /\ sumPc = "start"
  /\ reply = "none"
  /\ summary = << >>
  /\ requests = 0
  /\ RunIdle
  /\ call = NoCall

SpecUnusable == InitUnusable /\ [][NextSummary]_vars

----------------------------------------------------------------------------
(* groupArticlesByCategory applied to a list of articles *)

MaxGroupArticles == 2

GroupBodies == {<<"a", ".">>, <<"porto", ".">>, <<"join us", ".">>}

GroupSources == {<<"sifted">>, <<"techinporto">>}

GroupHints == {"", "general", "pt_tech", "global_tech"}

\* articles under one link that differ in what the rules, the hint and the
\* scorer see; articles under a second link; one without a link, one without a
\* title, one whose guid is not its link
GroupCatalogue ==
  {NewsItem("", "u1", <<"tech">>, c, src, h, 0) :
     c \in GroupBodies, src \in GroupSources, h \in GroupHints}
    \cup {NewsItem("", "u1", <<"news">>, <<"a", ".">>, src, h, 0) :
            src \in GroupSources, h \in GroupHints}
    \cup {NewsItem("", "u2", <<"news">>, <<"a", ".">>, <<"sifted">>, h, 0) :
            h \in GroupHints}
    \cup {NewsItem("", "", <<"tech">>, <<"porto", ".">>, <<"sifted">>, "pt_tech", 0),
          NewsItem("", "u1", Undefined, <<"a", ".">>, <<"sifted">>, "global_tech", 0),
          NewsItem("g1", "u1", <<"tech">>, <<"a", ".">>, <<"sifted">>, "", 0)}

RECURSIVE ListsUpTo(_, _)
ListsUpTo(items, n) ==
  IF n = 0 THEN {<< >>}
  ELSE ListsUpTo(items, n - 1)
         \cup {Append(l, x) : l \in {m \in ListsUpTo(items, n - 1) : Len(m) = n - 1},
                              x \in items}

SummarizerIdle ==
  /\ article = NoArticle
  /\ svcText = << >>
  /\ sumPc = "idle"
  /\ reply = "none"
  /\ summary = << >>
  /\ requests = 0

InitGroup ==
  /\ articles \in ListsUpTo(GroupCatalogue, MaxGroupArticles)
  /\ pc = "group"
  /\ apiKey = FALSE
  /\ SummarizerIdle
  /\ seenStore = {} /\ articleMap = << >> /\ grouped = NoGroups
  /\ hfRequests = 0 /\ hfReply = "none" /\ via = "none" /\ pending = << >>
  /\ draft = EmptyReport /\ report = NoReport /\ stored = {}
  /\ lastReport = NoReport /\ outcome = "none"
  /\ feeds = NoFeeds /\ emails = {} /\ request = NoRequest
  /\ response = NoResponse /\ launched = 0 /\ call = NoCall

\* generateReport, line 179: the TypeError of a missing title is caught at
\* line 202 and ends the run
GroupArticles ==
  /\ pc = "group"
  /\ LET result == groupArticlesByCategory(articles)
     IN  /\ articleMap' = result.articleMap
         /\ grouped' = result.categories
         /\ IF result.threw
              THEN pc' = "done" /\ outcome' = "error"
            ELSE pc' = "call" /\ outcome' = outcome
  /\ feeds' = NoFeeds
  /\ UNCHANGED <<sumVars, articles, seenStore, hfRequests, hfReply, via, pending,
                 draft, report, stored, lastReport, emails, httpVars, call>>

NextGroup == GroupArticles

SpecGroup == InitGroup /\ [][NextGroup]_vars

----------------------------------------------------------------------------
(* generateReport as a state machine: one report generation *)

MaxItems == 4

\* DEFAULT_FEEDS, each feed with the title its items get as source
Feeds ==
  << [url |-> "eco.sapo.pt/empreendedorismo", category |-> "pt_tech",
      title |-> <<"eco">>],
     [url |-> "techcrunch.com/venture", category |-> "global_tech",
      title |-> <<"techcrunch">>],
     [url |-> "techcrunch.com/startups", category |-> "global_tech",
      title |-> <<"techcrunch">>],
     [url |-> "sifted.eu", category |-> "global_tech", title |-> <<"sifted">>] >>

Hour == 3600

Day == 24 * Hour

\* The age of an item is the number of seconds from its pubDate to the moment
\* isRecent reads the clock, negative for a pubDate in the future.  Two values
\* beyond every age stand for an item without pubDate and isoDate and for a
\* pubDate new Date() cannot parse.
MaxAge == 3 * Day

NoDate == MaxAge + 1

InvalidDate == MaxAge + 2

FeedItem(feed, link, title, content, age) ==
  [feed |-> feed, guid |-> "", link |-> link, title |-> title,
   content |-> content, age |-> age]

\* what the feeds may hold, in feed order: a Portuguese item, four global
\* items of which two score the same, an item that repeats another one's link
\* with another title, an item exactly 24 hours old and one a second older,
\* an item without title and one without link
Catalogue ==
  << FeedItem(1, "p1", <<"porto", "SP", "tech">>, <<"a", ".">>, 5 * Hour),
     FeedItem(2, "g1", <<"news">>, <<"a", ".">>, 3 * Hour),
     FeedItem(2, "g2", <<"news">>, <<"a", ".">>, 4 * Hour),
     FeedItem(3, "g3", <<"tech">>, <<"funding", ".">>, 6 * Hour),
     FeedItem(3, "g1", <<"porto">>, <<"a", ".">>, 2 * Hour),
     FeedItem(4, "g4", <<"news">>, <<"a", ".", "a", ".", "a", ".", "a", ".">>, Day),
     FeedItem(4, "g5", <<"news">>, <<"a", ".">>, Day + 1),
     FeedItem(4, "g6", Undefined, <<"a", ".">>, 7 * Hour),
     FeedItem(4, "", <<"news">>, <<"a", ".">>, 8 * Hour) >>

\* lines 407-416, rejecting the article published exactly 24 hours ago
isRecent_Exclusive(age) ==
  IF age = NoDate THEN FALSE
  ELSE IF age = InvalidDate THEN FALSE
  ELSE age < Day

\* lines 407-416: a missing pubDate is falsy (line 408); an Invalid Date
\* compares false with every date (line 415); a Worker's clock is UTC, where
\* setHours(getHours() - 24) is the instant 24 hours earlier
isRecent(age) ==
  IF age = NoDate THEN FALSE
  ELSE IF age = InvalidDate THEN FALSE
  ELSE age <= Day

\* lines 349-402 without the catch of line 398: the failure of any feed
\* rejects Promise.all and no feed contributes
fetchFeed_Uncaught(f, present, failed) ==
  IF failed # {} THEN << >>
  ELSE LET mine == SelectSeq([k \in 1..Len(Catalogue) |-> k],
                     LAMBDA k : k \in present /\ Catalogue[k].feed = f
                                  /\ isRecent(Catalogue[k].age))
       IN  [i \in 1..Len(mine) |->
              NewsItem(Catalogue[mine[i]].guid, Catalogue[mine[i]].link,
                       Catalogue[mine[i]].title, Catalogue[mine[i]].content,
                       Feeds[f].title, Feeds[f].category, Catalogue[mine[i]].age)]

\* lines 388-397: the recent items of one feed, or none when the request or
\* the parser failed (line 398)
fetchFeed(f, present, failed) ==
  IF f \in failed THEN << >>
  ELSE LET mine == SelectSeq([k \in 1..Len(Catalogue) |-> k],
                     LAMBDA k : k \in present /\ Catalogue[k].feed = f
                                  /\ isRecent(Catalogue[k].age))
       IN  [i \in 1..Len(mine) |->
              NewsItem(Catalogue[mine[i]].guid, Catalogue[mine[i]].link,
                       Catalogue[mine[i]].title, Catalogue[mine[i]].content,
                       Feeds[f].title, Feeds[f].category, Catalogue[mine[i]].age)]

\* lines 305-309: Array.prototype.sort, newest first, stable
RECURSIVE InsertByDate(_, _)
InsertByDate(sorted, art) ==
  IF sorted = << >> THEN <<art>>
  ELSE IF Head(sorted).age <= art.age
    THEN <<Head(sorted)>> \o InsertByDate(Tail(sorted), art)
  ELSE <<art>> \o sorted

RECURSIVE SortByDate(_)
SortByDate(arts) ==
  IF arts = << >> THEN << >>
  ELSE InsertByDate(SortByDate(SubSeq(arts, 1, Len(arts) - 1)), arts[Len(arts)])

\* line 301
useSeenCheck == FALSE

SeenTtl == 60 * 60 * 24 * 30

SeenIds(store) == {e.id : e \in store}

\* lines 313-334: the unseen articles and the store after marking them
RECURSIVE FilterUnseen(_, _, _)
FilterUnseen(arts, accepted, store) ==
  IF arts = << >> THEN [accepted |-> accepted, store |-> store]
  ELSE LET id == getArticleId(Head(arts))
       IN  IF id = "" \/ id \in SeenIds(store)
             THEN FilterUnseen(Tail(arts), accepted, store)
           ELSE FilterUnseen(Tail(arts), Append(accepted, Head(arts)),
                             store \cup {[id |-> id, ttl |-> SeenTtl]})

\* lines 262-344
fetchArticles(present, failed, store) ==
  LET allArticles == fetchFeed(1, present, failed) \o fetchFeed(2, present, failed)
                       \o fetchFeed(3, present, failed) \o fetchFeed(4, present, failed)
      recentArticles == SelectSeq(allArticles, LAMBDA art : isRecent(art.age))
      unseen == FilterUnseen(recentArticles, << >>, store)
  IN  IF ~useSeenCheck
        THEN [articles |-> SortByDate(recentArticles), store |-> store]
      ELSE [articles |-> SortByDate(unseen.accepted), store |-> unseen.store]

\* texts the service may return for the whole-report prompt
ReportTexts ==
  { <<"w">>,
    <<"t">>,
    <<"{", "pt:", "[", "v", "]", ",", "gl:", "[", "v", "]", "}">>,
    <<"w", "NL", "{", "k:", "v", "}", "NL", "w">>,
    <<"{", "NL", "pt:", "[", "{", "k:", "v", "}", "NL", "]", "}">>,
    <<"{", "w", "}">>,
    <<"{", "pt:", "v", "}">> }

\* texts the service may return for one article
RunTexts ==
  { <<"a", ".", "a", ".", "a", ".">>, <<"a", ".", "NL", "a", ".", "a", ".">> }

Init ==
  /\ apiKey \in BOOLEAN
  /\ SummarizerIdle
  /\ RunIdle
  /\ call = NoCall

\* scheduled, line 87, and POST /run-report, line 107: generateReport starts
\* and requests the feeds
RunReport ==
  /\ pc = "idle"
  /\ pc' = "fetch"
  /\ UNCHANGED <<sumVars, articles, seenStore, articleMap, grouped, hfRequests,
                 hfReply, via, pending, draft, report, stored, lastReport, outcome,
                 auxVars>>

\* lines 170-176: the feeds answered, holding some of the given items of the
\* catalogue; without articles the run ends
FetchArticlesFrom(items) ==
  /\ pc = "fetch"
  /\ \E present \in SUBSET items, failed \in SUBSET (1..Len(Feeds)) :
       /\ Cardinality(present) <= MaxItems
       /\ LET fetched == fetchArticles(present, failed, seenStore)
          IN  /\ articles' = fetched.articles
              /\ seenStore' = fetched.store
              /\ IF Len(fetched.articles) = 0
                   THEN pc' = "done" /\ outcome' = "no_articles"
                 ELSE pc' = "group" /\ outcome' = outcome
       /\ feeds' = [present |-> present, failed |-> failed]
  /\ UNCHANGED <<sumVars, articleMap, grouped, hfRequests, hfReply, via, pending,
                 draft, report, stored, lastReport, emails, httpVars, call>>

FetchArticles == FetchArticlesFrom(1..Len(Catalogue))

\* createReportFromTopArticles up to its first article
StartAssembly(branch) ==
  /\ via' = branch
  /\ pending' = SelectedArticles(grouped)
  /\ draft' = EmptyReport
  /\ pc' = "assemble"
  /\ report' = report

\* lines 607-691: the prompt and the request to the primary endpoint; without
\* an API key callHuggingFace throws and its catch builds the fallback report
CallHuggingFace ==
  /\ pc = "call"
  /\ IF ~apiKey
       THEN hfReply' = "nokey" /\ hfRequests' = hfRequests /\ StartAssembly("fallback")
     ELSE /\ hfRequests' = hfRequests + 1
          /\ pc' = "primary"
          /\ UNCHANGED <<hfReply, via, pending, draft, report>>
  /\ UNCHANGED <<sumVars, articles, seenStore, articleMap, grouped, stored,
                 lastReport, outcome, auxVars>>

\* what a report-level request may end in: fetch throws, a non-2xx status, a
\* non-2xx status whose body cannot be read, a body that is not JSON, a payload
ReportOutcomes ==
  {Outcome(k, NoData) : k \in {"throw", "status", "statusbroken", "badjson"}}
    \cup {Outcome("json", Payload(sh, text, Absent)) :
            sh \in {"array", "object"}, text \in ReportTexts}
    \cup {Outcome("json", Payload(sh, Absent, text)) :
            sh \in {"array", "object"}, text \in ReportTexts}
    \cup {Outcome("json", Payload(sh, Absent, Absent)) :
            sh \in {"array", "object", "emptyarray", "null"}}

\* lines 733-744 and 724-726: a payload reached processModelResponse
AfterPayload(data) ==
  LET r == processModelResponse(data)
  IN  IF r.via = "parsed"
        THEN /\ via' = "parsed"
             /\ report' = [entries |-> r.parsed, meta |-> ReportMeta(grouped)]
             /\ pc' = "save"
             /\ UNCHANGED <<pending, draft>>
      ELSE IF r.via = "topics" THEN StartAssembly("topics")
      ELSE StartAssembly("fallback")

\* lines 692-744: the primary endpoint answered
PrimaryResponds ==
  /\ pc = "primary"
  /\ \E o \in ReportOutcomes :
       /\ hfReply' = IF o.kind = "json" THEN "payload"
                     ELSE IF o.kind = "statusbroken" THEN "status" ELSE o.kind
       /\ IF o.kind = "status"
            THEN /\ hfRequests' = hfRequests + 1
                 /\ pc' = "backup"
                 /\ UNCHANGED <<via, pending, draft, report>>
          ELSE /\ hfRequests' = hfRequests
               /\ IF o.kind = "json" THEN AfterPayload(o.data)
                  ELSE StartAssembly("fallback")
  /\ UNCHANGED <<sumVars, articles, seenStore, articleMap, grouped, stored,
                 lastReport, outcome, auxVars>>

\* lines 703-726 and 740-744: the backup endpoint answered
BackupResponds ==
  /\ pc = "backup"
  /\ \E o \in ReportOutcomes :
       /\ o.kind # "statusbroken"
       /\ hfReply' = IF o.kind = "json" THEN "payload" ELSE o.kind
       /\ IF o.kind = "json" THEN AfterPayload(o.data) ELSE StartAssembly("fallback")
  /\ UNCHANGED <<sumVars, articles, seenStore, articleMap, grouped, hfRequests,
                 stored, lastReport, outcome, auxVars>>

\* lines 1320-1327: generateArticleSummary is called for the next article
SummarizeNext ==
  /\ pc = "assemble"
  /\ pending # << >>
  /\ article' = Head(pending).article
  /\ svcText' \in IF apiKey /\ Head(pending).article.content # << >>
                    THEN RunTexts ELSE {<< >>}
  /\ sumPc' = "start"
  /\ reply' = "none"
  /\ summary' = << >>
  /\ requests' = 0
  /\ pc' = "summarize"
  /\ UNCHANGED <<apiKey, articles, seenStore, articleMap, grouped, hfRequests,
                 hfReply, via, pending, draft, report, stored, lastReport, outcome,
                 auxVars>>

\* lines 1327-1336: the summary came back and the item is pushed
CollectSummary ==
  /\ pc = "summarize"
  /\ sumPc = "done"
  /\ LET category == Head(pending).category
     IN  draft' = [draft EXCEPT ![category] = Append(@, ReportItem(article, summary))]
  /\ pending' = Tail(pending)
  /\ sumPc' = "idle"
  /\ pc' = "assemble"
  /\ UNCHANGED <<article, apiKey, svcText, reply, summary, requests, articles,
                 seenStore, articleMap, grouped, hfRequests, hfReply, via, report,
                 stored, lastReport, outcome, auxVars>>

\* lines 1340-1368 and 626-637: the placeholders, then the metadata
FinishAssembly ==
  /\ pc = "assemble"
  /\ pending = << >>
  /\ report' = [entries |-> WithPlaceholders(draft), meta |-> ReportMeta(grouped)]
  /\ pc' = "save"
  /\ UNCHANGED <<sumVars, articles, seenStore, articleMap, grouped, hfRequests,
                 hfReply, via, pending, draft, stored, lastReport, outcome, auxVars>>

\* renderHtmlEmail, lines 1489-1490: forEach of a category that is a string
RenderThrows(rep, branch) ==
  /\ branch = "parsed"
  /\ \E c \in {"pt_tech", "global_tech"} \cap DOMAIN rep.entries :
       rep.entries[c] = <<"v">>

\* line 166
shouldSendEmail == FALSE

\* lines 185-200: the report is put into REPORTS and into globalThis.lastReport
\* (saveReportLocally catches what rendering throws); sendReport is called
\* only if shouldSendEmail
SaveReport ==
  /\ pc = "save"
  /\ stored' = {report}
  /\ lastReport' = IF RenderThrows(report, via) THEN lastReport ELSE report
  /\ emails' = IF shouldSendEmail THEN emails \cup {report} ELSE emails
  /\ outcome' = "saved"
  /\ pc' = "done"
  /\ UNCHANGED <<sumVars, articles, seenStore, articleMap, grouped, hfRequests,
                 hfReply, via, pending, draft, report, feeds, httpVars, call>>

\* the summariser runs only while generateReport waits for it
Next ==
  \/ RunReport
  \/ FetchArticles
  \/ GroupArticles
  \/ CallHuggingFace
  \/ PrimaryResponds
  \/ BackupResponds
  \/ SummarizeNext
  \/ SumBegin
  \/ SumRespond
  \/ CollectSummary
  \/ FinishAssembly
  \/ SaveReport

Spec == Init /\ [][Next]_vars

----------------------------------------------------------------------------
(* The fetch handler, serving requests while a report generation runs *)

MaxRequests == 2

Paths == {"/", "/run-report", "/latest-report", "/unknown-route"}

Methods == {"GET", "POST"}

\* the format query parameter; "" when the URL has none
Formats == {"", "json", "html", "text", "xml"}

Requests ==
  {[path |-> p, method |-> m, format |-> f] :
     p \in Paths, m \in Methods, f \in Formats}

\* line 95
IsHealthCheck(req) == req.path = "/" /\ req.method = "GET"

\* line 105, without the test of the method
IsRunReport_AnyMethod(req) == req.path = "/run-report"

\* line 105
IsRunReport(req) == req.path = "/run-report" /\ req.method = "POST"

\* line 118
IsLatestReport(req) == req.path = "/latest-report"

Reply(status, type, body, rep) ==
  [status |-> status, type |-> type, body |-> body, report |-> rep]

\* lines 91-156: the response; a Response without status is a 200
Respond(req, last) ==
  IF IsHealthCheck(req)
    THEN Reply(200, "application/json", "Porto Tech News service is running", NoReport)
  ELSE IF IsRunReport(req)
    THEN Reply(200, "application/json", "Report generation started", NoReport)
  ELSE IF IsLatestReport(req)
    THEN IF last = NoReport
           THEN Reply(404, "application/json",
                      "No report available. Run /run-report endpoint first.", NoReport)
         ELSE LET format == IF req.format = "" THEN "json" ELSE req.format
              IN  CASE format = "json" ->
                         Reply(200, "application/json", "lastReport", last)
                    [] format = "html" ->
                         Reply(200, "text/html", "lastReport.content.html", last)
                    [] format = "text" ->
                         Reply(200, "text/plain", "lastReport.content.text", last)
                    [] OTHER ->
                         Reply(400, "application/json",
                               "Invalid format. Use json, html, or text.", NoReport)
  ELSE Reply(404, "text/plain", "Not found", NoReport)

\* line 107, calling generateReport twice
Launched_Twice(req, n) == IF IsRunReport(req) THEN n + 2 ELSE n

\* line 107: ctx.waitUntil(generateReport(env))
Launched(req, n) == IF IsRunReport(req) THEN n + 1 ELSE n

\* lines 91-156: one request is handled.  generateReport runs up to its first
\* await inside the handler; the model follows the first generation in
\* detail and counts the others.
fetch ==
  /\ request.seq < MaxRequests
  /\ \E req \in Requests :
       /\ req.format # "" => IsLatestReport(req)
       /\ request' = [seq |-> request.seq + 1, path |-> req.path,
                      method |-> req.method, format |-> req.format]
       /\ response' = Respond(req, lastReport)
       /\ launched' = Launched(req, launched)
       /\ pc' = IF launched' # launched /\ pc = "idle" THEN "fetch" ELSE pc
  /\ UNCHANGED <<sumVars, articles, seenStore, articleMap, grouped, hfRequests,
                 hfReply, via, pending, draft, report, stored, lastReport, outcome,
                 feeds, emails, call>>

\* the worker without HUGGINGFACE_API_KEY
InitHttp ==
  /\ apiKey = FALSE
  /\ SummarizerIdle
  /\ RunIdle
  /\ call = NoCall

\* the items the feeds may hold while requests are served: the Portuguese
\* item and the item without title
HttpItems == {1, 8}

FetchHttpArticles == FetchArticlesFrom(HttpItems)

\* the handler and the steps of a generation that needs no generation service
NextHttp ==
  \/ fetch
  \/ RunReport
  \/ FetchHttpArticles
  \/ GroupArticles
  \/ CallHuggingFace
  \/ SummarizeNext
  \/ SumBegin
  \/ CollectSummary
  \/ FinishAssembly
  \/ SaveReport

SpecHttp == InitHttp /\ [][NextHttp]_vars

----------------------------------------------------------------------------
(* calculateRelevanceScore called repeatedly on one article object *)

MaxScoreCalls == 3

\* text.repeat(n)
Repeat(text, n) == [i \in 1..(n * Len(text)) |-> text[((i - 1) % Len(text)) + 1]]

\* no title, a title without keyword, titles with one and two keywords, a
\* title whose four pt_tech keywords score more than the cap together
ScoreTitles ==
  { Undefined,
    <<"news">>,
    <<"tech">>,
    <<"porto", "SP", "tech">>,
    <<"ai", "SP", "launched">>,
    <<"tech", "porto", "lisbon", "portugal", "news", "news">> }

\* no body, a short body, bodies with a region name, a promotion, every
\* reward of the content-value component, two patterns of a group at once,
\* and a long body in which four pt_tech keywords occur 7 times each and
\* which passes 786 characters
ScoreContents ==
  { << >>,
    <<"a", ".">>,
    <<"porto", ".">>,
    <<"join us", ".">>,
    <<"funding", "SP", "join us", ".">>,
    <<"funding", "market", "launched">>,
    <<"funding", "investment", "join us", ".">>,
    <<"market", "growth", "launched", "acquired", "join us", "sign up">>,
    Repeat(<<"tech", "porto", "lisbon", "portugal">>, 7)
      \o <<"funding", "market">> \o Repeat(<<"launched">>, 100) }

ScoreSources ==
  { << >>, <<"sifted">>, <<"techcrunch">>, <<"techinporto">>,
    <<"techcrunch", "SP", "wired">> }

ScoreCategories == {"pt_tech", "global_tech", "events"}

\* an article before calculateRelevanceScore was called on it
NoDetails ==
  [titleMatch |-> 0, contentMatch |-> 0, source |-> 0, length |-> 0,
   contentValue |-> 0, categoryBoost |-> 0]

\* line 1034: article._scoreDetails = scoreComponents
WithDetails(art, details) ==
  [guid |-> art.guid, link |-> art.link, title |-> art.title,
   content |-> art.content, source |-> art.source,
   sourceCategory |-> art.sourceCategory, age |-> art.age,
   scoreDetails |-> details]

InitScore ==
  /\ \E t \in ScoreTitles, c \in ScoreContents, src \in ScoreSources :
       call = [fn      |-> "calculateRelevanceScore",
               article |-> WithDetails(NewsItem("", "u1", t, c, src, "global_tech", 0),
                                       NoDetails),
               log     |-> << >>]
  /\ apiKey = FALSE
  /\ SummarizerIdle
  /\ RunIdle

\* one call: the score is returned and the breakdown is left on the article
CallScore ==
  /\ call.fn = "calculateRelevanceScore"
  /\ Len(call.log) < MaxScoreCalls
  /\ \E category \in ScoreCategories :
       call' = [fn      |-> call.fn,
                article |-> WithDetails(call.article,
                                        ScoreComponents(call.article, category)),
                log     |-> Append(call.log,
                                   [category |-> category,
                                    score    |-> calculateRelevanceScore(call.article,
                                                                         category)])]
  /\ UNCHANGED <<sumVars, runVars, feeds, emails, httpVars>>

NextScore == CallScore

SpecScore == InitScore /\ [][NextScore]_vars

----------------------------------------------------------------------------
(* isRecent applied to one publication date *)

RecentMargin == 40

\* ages around now and around the 24-hour limit, a missing and an invalid date
RecentAges ==
  ((0 - RecentMargin)..RecentMargin)
    \cup ((Day - RecentMargin)..(Day + RecentMargin))
    \cup {NoDate, InvalidDate}

InitRecent ==
  /\ \E a \in RecentAges :
       call = [fn |-> "isRecent", age |-> a, returned |-> FALSE, result |-> FALSE]
  /\ apiKey = FALSE
  /\ SummarizerIdle
  /\ RunIdle

\* lines 388 and 297: isRecent(item.pubDate || item.isoDate)
CallIsRecent ==
  /\ call.fn = "isRecent"
  /\ ~call.returned
  /\ call' = [call EXCEPT !.returned = TRUE, !.result = isRecent(call.age)]
  /\ UNCHANGED <<sumVars, runVars, feeds, emails, httpVars>>

NextRecent == CallIsRecent

SpecRecent == InitRecent /\ [][NextRecent]_vars

----------------------------------------------------------------------------
(* Claims about the Summarizer, checked under SpecSummary and SpecUnusable *)

ExactlyThreeNonEmptyLines(text) ==
  LET lines == SplitLines(text)
  IN  Len(lines) = 3 /\ \A i \in 1..3 : lines[i] # << >>

\* C1: whatever the article and whatever the generation service does, the
\* string generateArticleSummary returns has exactly 3 lines, none empty.
C1_ThreeNonEmptyLines ==
  sumPc = "done" => ExactlyThreeNonEmptyLines(summary)

\* the body-derived fallback, stated from the claim: the first up to 3
\* sentences of the body without tags and repeated whitespace, then the filler
BodySentences(content) == MatchSentences(Trim(CollapseSpace(StripTags(content))))

BodyDerivedFallback(content) ==
  LET sentences == BodySentences(content)
  IN  JoinLines([i \in 1..3 |->
        IF i <= Len(sentences) THEN sentences[i] ELSE FallbackFiller])

ServiceUnusable ==
  ~apiKey \/ reply \in {"throw", "status", "badjson", "unrecognized"}

\* C5: for an article with a body, when the generation service cannot be used
\* (no credential, the request throws, a non-2xx status, a payload of no
\* accepted shape) generateArticleSummary returns the body-derived fallback.
C5_UnusableServiceGivesFallback ==
  (sumPc = "done" /\ article.content # << >> /\ ServiceUnusable)
    => summary = BodyDerivedFallback(article.content)

\* a non-2xx answer for a body with tags and two sentences: the fallback
\* holds both sentences and one filler
C5_Witness ==
  /\ sumPc = "done"
  /\ reply = "status"
  /\ Includes(article.content, <<"<">>)
  /\ Len(BodySentences(article.content)) = 2
  /\ summary = BodyDerivedFallback(article.content)

----------------------------------------------------------------------------
(* Claims about categorisation and resolution, checked under SpecGroup *)

Grouped == pc # "group" /\ outcome # "error"

IndexIn(seq, x) == CHOOSE i \in 1..Len(seq) : seq[i] = x

\* C6: resolution picks a member of the candidate set that no other candidate
\* outscores; among candidates sharing the top score it picks the one inserted
\* first; the score recorded with the final category is that candidate's.
C6_ResolutionPicksEarliestTop ==
  Grouped =>
    /\ \A k \in 1..Len(articleMap) :
         LET e == articleMap[k] IN
           /\ e.bestCategory \in Range(e.categories)
           /\ \A c \in Range(e.categories) : e.scores[c] <= e.scores[e.bestCategory]
           /\ \A i \in 1..(IndexIn(e.categories, e.bestCategory) - 1) :
                e.scores[e.categories[i]] < e.scores[e.bestCategory]
           /\ e.highestScore = e.scores[e.bestCategory]
    /\ \A c \in DOMAIN grouped : \A i \in 1..Len(grouped[c]) :
         \E k \in 1..Len(articleMap) :
           /\ articleMap[k].id = getArticleId(grouped[c][i])
           /\ grouped[c][i].finalCategory = articleMap[k].bestCategory
           /\ grouped[c][i].relevanceScore
                = articleMap[k].scores[articleMap[k].bestCategory]

\* an article with two candidates of equal score, resolved to the first
C6_Witness ==
  /\ Grouped
  /\ \E k \in 1..Len(articleMap) :
       LET e == articleMap[k] IN
         /\ Len(e.categories) >= 2
         /\ e.scores[e.categories[1]] = e.scores[e.categories[2]]
         /\ e.bestCategory = e.categories[1]
         /\ \E i \in 1..Len(grouped[e.bestCategory]) :
              grouped[e.bestCategory][i].link = e.article.link

\* what the source hint of an article contributes
HintCategories(art) ==
  IF art.sourceCategory \in {"", "general"} THEN {} ELSE {art.sourceCategory}

\* what the categorisation rules contribute for an article
RuleCategories(art) ==
  (IF IsPortuguese(art) THEN {"pt_tech"} ELSE {})
    \cup (IF IsEvent(art) THEN {"events"} ELSE {})

Contributed(art) == HintCategories(art) \cup RuleCategories(art)

\* the positions of the articles that were not skipped and carry the id
Occurrences(id) ==
  {i \in 1..Len(articles) : articles[i].link # "" /\ getArticleId(articles[i]) = id}

ContributedTo(id) == UNION {Contributed(articles[i]) : i \in Occurrences(id)}

FirstOccurrence(id) == CHOOSE i \in Occurrences(id) : \A j \in Occurrences(id) : i <= j

EveryLinkedArticleTracked ==
  \A i \in 1..Len(articles) :
    articles[i].link # "" =>
      \E k \in 1..Len(articleMap) :
        /\ articleMap[k].id = getArticleId(articles[i])
        /\ articleMap[k].categories # << >>

----------------------------------------------------------------------------
(* Claims about a report generation, checked under Spec *)

Assembled == pc \in {"save", "done"} /\ via \in {"topics", "fallback"}

\* C2: whatever the generation service answers, the report generateSummary
\* returns has an entry for pt_tech and an entry for global_tech.
C2_ReportHasEveryCategory ==
  pc \in {"save", "done"} /\ via # "none"
    => {"pt_tech", "global_tech"} \subseteq DOMAIN report.entries

\* C3: a run that fetched at least one article saves a report, whatever the
\* generation service does.
C3_RunWithArticlesSavesReport ==
  pc = "done" /\ Len(articles) > 0 => outcome = "saved" /\ stored = {report}

\* C4: every item of every category of an assembled report, placeholder or
\* not, has details of exactly 3 lines, none empty.
C4_DetailsHaveThreeLines ==
  Assembled =>
    \A c \in DOMAIN report.entries : \A i \in 1..Len(report.entries[c]) :
      ExactlyThreeNonEmptyLines(report.entries[c][i].details)

IsPlaceholder(item) == "source" \notin DOMAIN item

ArticleItems(items) == SelectSeq(items, LAMBDA item : ~IsPlaceholder(item))

Injective(f) == \A a, b \in DOMAIN f : a # b => f[a] # f[b]

\* item k of the report is the article at position f[k] of the category, the
\* positions run through the scores in descending order, keeping the input
\* order among equal scores, and every article left out ranks after them
IsTopSelection(items, arts, f) ==
  /\ Injective(f)
  /\ \A k \in 1..Len(items) :
       /\ items[k].link = arts[f[k]].link
       /\ items[k].headline = arts[f[k]].title
       /\ items[k].relevanceScore = arts[f[k]].relevanceScore
  /\ \A k \in 1..(Len(items) - 1) :
       \/ arts[f[k]].relevanceScore > arts[f[k + 1]].relevanceScore
       \/ /\ arts[f[k]].relevanceScore = arts[f[k + 1]].relevanceScore
          /\ f[k] < f[k + 1]
  /\ \A j \in (1..Len(arts)) \ {f[k] : k \in 1..Len(items)} :
       \A k \in 1..Len(items) :
         \/ arts[j].relevanceScore < arts[f[k]].relevanceScore
         \/ /\ arts[j].relevanceScore = arts[f[k]].relevanceScore
            /\ f[k] < j

\* C7: each category of the assembled report lists at most 3 articles, the 3
\* highest-scoring of the category (all when fewer), by descending score,
\* equal scores in input order, and no other article of the category.
C7_TopThreeByScoreStable ==
  Assembled =>
    \A c \in DOMAIN grouped :
      LET items == ArticleItems(report.entries[c])
          arts  == grouped[c]
      IN  /\ Len(items) = Min2(3, Len(arts))
          /\ \E f \in [1..Len(items) -> 1..Len(arts)] : IsTopSelection(items, arts, f)

\* four articles in global_tech, two of them with one score: the report lists
\* three, the equal ones among them, and the run has ended
C7_Witness ==
  /\ pc = "done"
  /\ Assembled
  /\ Len(grouped.global_tech) = 4
  /\ Len(ArticleItems(report.entries.global_tech)) = 3
  /\ \E k \in 1..2 :
       report.entries.global_tech[k].relevanceScore
         = report.entries.global_tech[k + 1].relevanceScore
  /\ \E i, j \in 1..4 :
       grouped.global_tech[i].relevanceScore # grouped.global_tech[j].relevanceScore

Placeholders(items) == SelectSeq(items, IsPlaceholder)

\* C8: after assembly a category holds one placeholder, and nothing else, if
\* no article was selected for it, and no placeholder otherwise; with every
\* category empty the report has one placeholder per category.
C8_PlaceholderIffEmpty ==
  Assembled =>
    \A c \in DOMAIN grouped :
      /\ Len(Placeholders(report.entries[c])) = (IF Len(grouped[c]) = 0 THEN 1 ELSE 0)
      /\ Len(grouped[c]) = 0 => Len(report.entries[c]) = 1
      /\ Len(grouped[c]) > 0 => ArticleItems(report.entries[c]) # << >>

\* articles were fetched, none was grouped: the saved report has exactly one
\* placeholder in each category
C8_Witness ==
  /\ pc = "done"
  /\ outcome = "saved"
  /\ Assembled
  /\ Len(articles) > 0
  /\ grouped = NoGroups
  /\ \A c \in DOMAIN grouped :
       Len(report.entries[c]) = 1 /\ IsPlaceholder(report.entries[c][1])

\* C10: an article id a run accepted is in the seen-store with a 30-day
\* expiry from then on.
C10_AcceptedIdsAreRecorded ==
  pc \notin {"idle", "fetch"} =>
    \A i \in 1..Len(articles) :
      getArticleId(articles[i]) # "" =>
        [id |-> getArticleId(articles[i]), ttl |-> 60 * 60 * 24 * 30] \in seenStore

\* fetchArticles has returned and its result has not been grouped yet
FetchReturned == pc = "group" \/ (pc = "done" /\ outcome = "no_articles")

\* item k of the catalogue as fetchFeed returns it
Delivered(k) ==
  NewsItem(Catalogue[k].guid, Catalogue[k].link, Catalogue[k].title,
           Catalogue[k].content, Feeds[Catalogue[k].feed].title,
           Feeds[Catalogue[k].feed].category, Catalogue[k].age)

\* the recent items the feeds that answered held
Expected ==
  {k \in feeds.present :
     Catalogue[k].feed \notin feeds.failed /\ Catalogue[k].age <= Day}

\* C14: a feed whose request or parse failed contributes no article, every
\* recent item of every other feed is returned by fetchArticles, and the
\* failure does not abort the run.
C14_FailedFeedContributesNothing ==
  FetchReturned =>
    /\ \A k \in 1..Len(Catalogue) :
         (\E i \in 1..Len(articles) : articles[i] = Delivered(k)) <=> k \in Expected
    /\ Len(articles) = Cardinality(Expected)
    /\ outcome # "error"
    /\ (Expected # {} => pc = "group")

\* one techcrunch feed failed while it held a recent item; the other
\* techcrunch feed and the Portuguese feed delivered theirs
C14_Witness ==
  /\ pc = "group"
  /\ feeds.failed = {2}
  /\ \E k \in feeds.present : Catalogue[k].feed = 2 /\ Catalogue[k].age <= Day
  /\ \E i \in 1..Len(articles) : articles[i].sourceCategory = "pt_tech"
  /\ \E i \in 1..Len(articles) :
       articles[i].sourceCategory = "global_tech" /\ articles[i].link = "g3"

\* generateSummary has returned a report
ReportBuilt == pc \in {"save", "done"} /\ via # "none"

\* some item of the assembled report carries details that are neither the
\* no-content text nor the body-derived fallback of its article
ServiceItems ==
  /\ via \in {"topics", "fallback"}
  /\ \E c \in DOMAIN grouped : \E i \in 1..Len(report.entries[c]) :
       LET item == report.entries[c][i] IN
         /\ ~IsPlaceholder(item)
         /\ \E j \in 1..Len(grouped[c]) :
              /\ grouped[c][j].originalLink = item.link
              /\ grouped[c][j].title = item.headline
              /\ item.details
                   \notin {NoContentSummary,
                           createFallbackArticleSummary(grouped[c][j].content)}

\* C15: ai_used is true only if a request to the generation service succeeded
\* and its output is in the report; it is false without API credential, when
\* every request failed and when the report is entirely fallback.
C15_AiUsedOnlyWhenServiceUsed ==
  ReportBuilt =>
    (report.meta.ai_used =>
       /\ apiKey
       /\ \/ (hfReply = "payload" /\ via \in {"parsed", "topics"})
          \/ ServiceItems)

\* C18: a run that produced a report has sent it by email once it is saved.
C18_SavedReportIsEmailed ==
  (pc = "done" /\ outcome = "saved") => (report \in stored /\ report \in emails)

\* C19: the seen-store is never corrupted: every entry is the entry of an
\* accepted article, with the 30-day expiry, and every id a run accepted is
\* stored when the run has finished.
C19_SeenStoreHoldsAcceptedIds ==
  /\ \A e \in seenStore :
       /\ e.ttl = SeenTtl
       /\ \E i \in 1..Len(articles) : getArticleId(articles[i]) = e.id
  /\ pc = "done" =>
       \A i \in 1..Len(articles) :
         getArticleId(articles[i]) # "" => getArticleId(articles[i]) \in SeenIds(seenStore)

\* C20: when the request to the primary endpoint fails (it throws or answers a
\* non-2xx status) the secondary endpoint is requested exactly once before
\* the fallback, per article and for the whole report; no endpoint is
\* requested twice in one call.
C20_SecondaryRequestedOnce ==
  /\ requests <= 2
  /\ hfRequests <= 2
  /\ (sumPc = "done" /\ reply \in {"throw", "status"}) => requests = 2
  /\ (pc \notin {"primary", "backup"} /\ hfReply \in {"throw", "status"})
       => hfRequests = 2

----------------------------------------------------------------------------
(* Claims about the fetch handler, checked under SpecHttp *)

IsPostRunReport(req) == req.path = "/run-report" /\ req.method = "POST"

IsGetRoot(req) == req.path = "/" /\ req.method = "GET"

\* the request matches none of GET /, POST /run-report, /latest-report
Unrouted(req) ==
  ~IsGetRoot(req) /\ ~IsPostRunReport(req) /\ req.path # "/latest-report"

Handled == request'.seq # request.seq

Started ==
  [status |-> 200, type |-> "application/json",
   body |-> "Report generation started", report |-> NoReport]

\* C16: a POST to /run-report, in any state, calls generateReport exactly
\* once and answers 200 'Report generation started'; the response stays the
\* same however the generation ends.
C16_RunReportStartsOneGeneration ==
  /\ [](IsPostRunReport(request) => response = Started)
  /\ [][(Handled /\ IsPostRunReport(request'))
          => (launched' = launched + 1 /\ response' = Started)]_vars

\* the second POST arrived while the first generation ran; that generation
\* failed, and the response is the one given
C16_Witness ==
  /\ IsPostRunReport(request)
  /\ request.seq = 2
  /\ launched = 2
  /\ pc = "done"
  /\ outcome = "error"
  /\ response = Started

\* C17: GET / answers 200 'Porto Tech News service is running'; a request
\* matching none of GET /, POST /run-report, /latest-report answers 404;
\* neither starts a report generation nor changes the stored last report.
C17_HealthAndNotFound ==
  /\ []((request.seq > 0 /\ IsGetRoot(request))
          => (response.status = 200
              /\ response.body = "Porto Tech News service is running"))
  /\ []((request.seq > 0 /\ Unrouted(request)) => response.status = 404)
  /\ [][(Handled /\ (IsGetRoot(request') \/ Unrouted(request')))
          => (launched' = launched /\ pc' = pc /\ lastReport' = lastReport
              /\ stored' = stored)]_vars

\* GET /run-report answered 404 after a generation had saved its report,
\* and no generation was started by a request
C17_Witness ==
  /\ request.path = "/run-report"
  /\ request.method = "GET"
  /\ response.status = 404
  /\ lastReport # NoReport
  /\ launched = 0

----------------------------------------------------------------------------
(* Claims about the RecencyFilter, checked under SpecRecent *)

\* the instant isRecent reads the clock, in seconds
Now == MaxAge

IsDate(age) == age \notin {NoDate, InvalidDate}

\* C11: isRecent(publishedAt) is true if and only if publishedAt is a date and
\* publishedAt >= now - 24 hours; a missing or unparseable timestamp is
\* rejected.
C11_RecentIffWithin24Hours ==
  (call.fn = "isRecent" /\ call.returned) =>
    LET publishedAt == Now - call.age
    IN  call.result <=> (IsDate(call.age) /\ publishedAt >= Now - 24 * Hour)

\* the article published exactly 24 hours before now was accepted
C11_Witness ==
  /\ call.fn = "isRecent"
  /\ call.returned
  /\ call.age = 24 * Hour
  /\ call.result

----------------------------------------------------------------------------
(* Claims about the RelevanceScorer, checked under SpecScore *)

Scored == call.fn = "calculateRelevanceScore" /\ call.log # << >>

\* C12: each component of a score lies within its bound (title keywords in
\* [0,40], content keywords in [0,30], source quality in [0,15], length in
\* [0,10], content value in [0,25], regional boost 0 or 15) and the returned
\* total lies in [0,135].
C12_ComponentsWithinBounds ==
  Scored =>
    LET d == call.article.scoreDetails IN
      /\ d.titleMatch \in 0..40000
      /\ d.contentMatch \in 0..30000
      /\ d.source \in 0..15000
      /\ d.length \in 0..10000
      /\ d.contentValue \in 0..25000
      /\ d.categoryBoost \in {0, 15000}
      /\ \A i \in 1..Len(call.log) : call.log[i].score \in 0..135000

\* a score in which every component sits at its cap
C12_Witness ==
  /\ Scored
  /\ call.article.scoreDetails
       = [titleMatch |-> 40000, contentMatch |-> 30000, source |-> 15000,
          length |-> 10000, contentValue |-> 25000, categoryBoost |-> 15000]
  /\ call.log[Len(call.log)].score = 135000

\* the article as it was before any call
Fresh(art) == WithDetails(art, NoDetails)

\* C13: two calls with the same article and category return the same score
\* whatever was scored in between, and the breakdown left on the article
\* changes no later score, no resolved category and no report item.
C13_ScoreIsDeterministic ==
  Scored =>
    LET art   == call.article
        now   == groupArticlesByCategory(<<art>>)
        fresh == groupArticlesByCategory(<<Fresh(art)>>)
    IN  /\ \A i, j \in 1..Len(call.log) :
             call.log[i].category = call.log[j].category
               => call.log[i].score = call.log[j].score
        /\ \A i \in 1..Len(call.log) :
             call.log[i].score = calculateRelevanceScore(Fresh(art), call.log[i].category)
        /\ now.threw = fresh.threw
        /\ now.categories = fresh.categories
        /\ SelectedArticles(now.categories) = SelectedArticles(fresh.categories)
        /\ \A c \in DOMAIN now.categories : \A i \in 1..Len(now.categories[c]) :
             LET a      == now.categories[c][i]
                 erased == [a EXCEPT !.scoreDetails = NoDetails]
             IN  /\ ScoreFor(a, c) = ScoreFor(erased, c)
                 /\ calculateRelevanceScore(a, c) = calculateRelevanceScore(erased, c)
                 /\ ReportItem(a, << >>) = ReportItem(erased, << >>)

\* an article scored for pt_tech with the regional boost, then for
\* global_tech, then for pt_tech again with the first score
C13_Witness ==
  /\ Scored
  /\ Len(call.log) = 3
  /\ call.log[1].category = "pt_tech"
  /\ call.log[2].category = "global_tech"
  /\ call.log[3].category = "pt_tech"
  /\ call.log[1].score # call.log[2].score
  /\ call.log[1].score = call.log[3].score
  /\ call.article.scoreDetails.categoryBoost = 15000

----------------------------------------------------------------------------
(* generateArticleSummary answered with a given JSON value *)

MaxPayloadUnits == 1

\* a generated_text / summary_text field: missing, empty or a text
PayloadFields == {Absent} \cup Texts(GenUnits, MaxPayloadUnits)

\* the JSON values: an array whose first element is a record, an empty array,
\* a record, null
Payloads ==
  {Payload(sh, g, s) : sh \in {"array", "object"}, g \in PayloadFields, s \in PayloadFields}
    \cup {Payload(sh, Absent, Absent) : sh \in {"emptyarray", "null"}}

ExtractArticles ==
  { Article(<<"T">>, <<"a", ".">>),
    Article(<< >>, <<"<", "a", ">", "a", ".", "a", ".", "a", ".", "a", ".">>) }

\* call.data is the value response.json() of line 1097 will return
InitExtract ==
  /\ article \in ExtractArticles
  /\ apiKey = TRUE
  /\ svcText = << >>
  /\ sumPc = "start"
  /\ reply = "none"
  /\ summary = << >>
  /\ requests = 0
  /\ RunIdle
  /\ \E data \in Payloads : call = [fn |-> "response.json", data |-> data]

\* lines 1097-1202 with that value
ExtractRespond ==
  /\ call.fn = "response.json"
  /\ SumRespondWith(Outcome("json", call.data))

NextExtract == SumBegin \/ ExtractRespond

SpecExtract == InitExtract /\ [][NextExtract]_vars

----------------------------------------------------------------------------
(* Claims about the response shapes, checked under SpecExtract *)

Answered == sumPc = "done" /\ call.fn = "response.json"

\* the fields of an accepted shape that hold a text
AcceptedFields(data) ==
  IF data.shape \in {"array", "object"}
    THEN {f \in {data.gen, data.sum} : Truthy(f)}
    ELSE {}

\* C21: the generated text is extracted from each of the four accepted shapes
\* (array or object, generated_text or summary_text) and post-processed; the
\* body-derived fallback is taken at once for exactly the values that match
\* none of the four.
C21_FourShapesExtracted ==
  Answered =>
    LET fields == AcceptedFields(call.data)
    IN  IF fields # {}
          THEN /\ reply = "text"
               /\ summary \in UNION {PostProcess(f, article.title, article.content) :
                                       f \in fields}
          ELSE /\ reply = "unrecognized"
               /\ summary = createFallbackArticleSummary(article.content)

----------------------------------------------------------------------------
(* Claims about the components of a score, checked under SpecScore *)

\* the point values of the table entries the publisher name contains
MatchingPoints(sourceName) ==
  {highQualitySources[k][2] : k \in {j \in 1..Len(highQualitySources) :
                                       Contains(sourceName, highQualitySources[j][1])}}

HighestPoints(sourceName) ==
  IF MatchingPoints(sourceName) = {} THEN 0
  ELSE CHOOSE p \in MatchingPoints(sourceName) : \A q \in MatchingPoints(sourceName) : q <= p

\* the last call: its category, its score and the breakdown it left
LastCall == call.log[Len(call.log)]

\* what the last call added to the score for the publisher
SourcePart ==
  LET d == call.article.scoreDetails
  IN  LastCall.score
        - (d.titleMatch + d.contentMatch + d.length + d.contentValue + d.categoryBoost)

\* C22: the source-quality component is the highest point value among the
\* table entries the publisher name contains (not their sum, not the first
\* match in table order), and 0 when no entry matches.
C22_SourceIsHighestMatch ==
  Scored =>
    /\ SourcePart = HighestPoints(call.article.source)
    /\ call.article.scoreDetails.source = HighestPoints(call.article.source)

\* some pattern of the group matches the text
GroupMatches(text, patterns) ==
  \E i \in 1..Len(text) : Needles(text[i]) \cap patterns # {}

Indicator(b) == IF b THEN 1 ELSE 0

Clamp(x, lo, hi) == IF x < lo THEN lo ELSE IF x > hi THEN hi ELSE x

\* title + content of the scored article
ScoredText == OrEmpty(call.article.title) \o call.article.content

\* what the last call added to the score for the content value
ContentValuePart ==
  LET d == call.article.scoreDetails
  IN  LastCall.score
        - (d.titleMatch + d.contentMatch + d.source + d.length + d.categoryBoost)

\* C23: the content-value component is
\* clamp(15*[funding] + 10*[market analysis] + 12*[milestone] - 15*[promotional], 0, 25),
\* each group counting once however many of its patterns match, the groups
\* independent of each other, and the value the same for every category.
C23_ContentValueIsClampedSum ==
  Scored =>
    LET expected ==
          Clamp(15000 * Indicator(GroupMatches(ScoredText, fundingPatterns))
                  + 10000 * Indicator(GroupMatches(ScoredText, marketAnalysisPatterns))
                  + 12000 * Indicator(GroupMatches(ScoredText, milestonePatterns))
                  - 15000 * Indicator(GroupMatches(ScoredText, promotionalPatterns)),
                0, 25000)
    IN  /\ ContentValuePart = expected
        /\ call.article.scoreDetails.contentValue = expected
        /\ \A c \in ScoreCategories :
             ScoreComponents(call.article, c).contentValue = expected

\* a promotional article on which two market and two milestone patterns
\* match: 10 + 12 - 15 = 7
C23_Witness ==
  /\ Scored
  /\ Cardinality({p \in marketAnalysisPatterns : Contains(ScoredText, p)}) >= 2
  /\ Cardinality({p \in milestonePatterns : Contains(ScoredText, p)}) >= 2
  /\ Cardinality({p \in promotionalPatterns : Contains(ScoredText, p)}) >= 2
  /\ ~GroupMatches(ScoredText, fundingPatterns)
  /\ ContentValuePart = 7000
  /\ Len(call.log) >= 2
  /\ call.log[1].category # call.log[2].category

\* the words of the text in which a region-name variant occurs
RegionOccurrences(text) ==
  {i \in 1..Len(text) : \E v \in {"portug", "porto", "lisbo[an]"} : v \in Needles(text[i])}

\* what the last call added to the score beyond the five capped components
BoostPart ==
  LET d == call.article.scoreDetails
  IN  LastCall.score
        - (d.titleMatch + d.contentMatch + d.source + d.length + d.contentValue)

\* C24: the flat regional boost of 15 is added exactly when the category is
\* pt_tech and title + body hold at least 3 occurrences of region-name
\* variants; it comes on top of the five capped components, whatever they
\* are, and is never added for another category.
C24_RegionalBoost ==
  Scored =>
    LET boosted == /\ LastCall.category = "pt_tech"
                   /\ Cardinality(RegionOccurrences(ScoredText)) >= 3
    IN  /\ BoostPart = IF boosted THEN 15000 ELSE 0
        /\ call.article.scoreDetails.categoryBoost = BoostPart

\* an article with exactly 3 occurrences scored for global_tech without the
\* boost and then for pt_tech with it
C24_Witness ==
  /\ Scored
  /\ Cardinality(RegionOccurrences(ScoredText)) = 3
  /\ Len(call.log) = 2
  /\ call.log[1].category = "global_tech"
  /\ LastCall.category = "pt_tech"
  /\ BoostPart = 15000
  /\ calculateRelevanceScore(Fresh(call.article), "global_tech") = call.log[1].score
  /\ ScoreComponents(call.article, "global_tech").categoryBoost = 0

----------------------------------------------------------------------------
(* Two concurrent runs of fetchArticles on one SEEN_ARTICLES store, from   *)
(* the recent articles each run found; a step ends at an await.            *)

MaxDedupArticles == 2

\* recent articles: two with an id, one without guid and link
DedupCatalogue ==
  << NewsItem("g1", "u1", <<"a">>, <<"a", ".">>, <<"sifted">>, "", 0),
     NewsItem("g2", "u2", <<"a">>, <<"a", ".">>, <<"sifted">>, "", Hour),
     NewsItem("", "", <<"a">>, <<"a", ".">>, <<"sifted">>, "", 2 * Hour) >>

\* a call of fetchArticles at line 296: pc is "start", "get" (line 321
\* awaits), "put" (line 326 awaits) or "done"; i is the article of the loop
\* of line 313, observed the ids whose get returned null
DedupRun(recent) ==
  [pc |-> "start", recent |-> recent, i |-> 1, unseen |-> << >>,
   observed |-> {}, returned |-> << >>]

InitDedup ==
  /\ \E r1 \in ListsUpTo(Range(DedupCatalogue), MaxDedupArticles),
        r2 \in ListsUpTo(Range(DedupCatalogue), MaxDedupArticles) :
       call = [fn |-> "fetchArticles", runs |-> <<DedupRun(r1), DedupRun(r2)>>]
  /\ apiKey = FALSE
  /\ SummarizerIdle
  /\ RunIdle

\* lines 313-319 and 337-341: the loop goes on from article i, passing the
\* articles without id, to the next get or to the return
RECURSIVE LoopFrom(_, _)
LoopFrom(run, i) ==
  IF i > Len(run.recent)
    THEN [run EXCEPT !.pc = "done", !.i = i, !.returned = SortByDate(run.unseen)]
  ELSE IF getArticleId(run.recent[i]) = ""
    THEN LoopFrom(run, i + 1)
  ELSE [run EXCEPT !.pc = "get", !.i = i]

\* lines 300-341: one run goes on to its next await or to its return
FetchStep(r) ==
  /\ call.fn = "fetchArticles"
  /\ LET run == call.runs[r]
         id  == getArticleId(run.recent[run.i])
     IN  /\ run.pc # "done"
         /\ IF run.pc = "start"
              THEN /\ call' = [call EXCEPT !.runs[r] =
                                 IF ~useSeenCheck
                                   THEN [run EXCEPT !.pc = "done",
                                                    !.returned = SortByDate(run.recent)]
                                   ELSE LoopFrom(run, 1)]
                   /\ seenStore' = seenStore
            ELSE IF run.pc = "get"
              THEN /\ call' = [call EXCEPT !.runs[r] =
                                 IF id \in SeenIds(seenStore)
                                   THEN LoopFrom(run, run.i + 1)
                                   ELSE [run EXCEPT !.pc = "put",
                                                    !.unseen = Append(@, run.recent[run.i]),
                                                    !.observed = @ \cup {id}]]
                   /\ seenStore' = seenStore
            ELSE /\ seenStore' = seenStore \cup {[id |-> id, ttl |-> SeenTtl]}
                 /\ call' = [call EXCEPT !.runs[r] = LoopFrom(run, run.i + 1)]
  /\ UNCHANGED <<sumVars, pc, articles, articleMap, grouped, hfRequests, hfReply,
                 via, pending, draft, report, stored, lastReport, outcome, feeds,
                 emails, httpVars>>

NextDedup == \E r \in 1..2 : FetchStep(r)

SpecDedup == InitDedup /\ [][NextDedup]_vars

----------------------------------------------------------------------------
(* Claims about concurrent runs, checked under SpecDedup *)

BothReturned ==
  call.fn = "fetchArticles" /\ \A r \in 1..2 : call.runs[r].pc = "done"

IdsOf(arts) == {getArticleId(arts[k]) : k \in 1..Len(arts)} \ {""}

\* run r returned the article with this id
Accepts(r, id) == id \in IdsOf(call.runs[r].returned)

\* C25: the dedup is a check followed by an act: when two concurrent runs
\* process one id that the store does not hold, each run that accepts the
\* article has first read the store and observed the id as unseen (so both
\* may), and at least one of the runs accepts it.
C25_CheckThenActRace ==
  BothReturned =>
    \A id \in IdsOf(call.runs[1].recent) \cap IdsOf(call.runs[2].recent) :
      /\ \E r \in 1..2 : Accepts(r, id)
      /\ \A r \in 1..2 : Accepts(r, id) => id \in call.runs[r].observed

----------------------------------------------------------------------------
(* Claims about the calls of the Summarizer during assembly, checked under *)
(* Spec                                                                    *)

Assembling == pc \in {"assemble", "summarize"}

\* the articles of a category that come before article j by score, and by
\* input order among equal scores
RanksBefore(arts, j) ==
  {i \in 1..Len(arts) :
     \/ arts[i].relevanceScore > arts[j].relevanceScore
     \/ arts[i].relevanceScore = arts[j].relevanceScore /\ i < j}

\* the article is one of the top 3 of the category
IsSelected(c, art) ==
  \E j \in 1..Len(grouped[c]) :
    grouped[c][j] = art /\ Cardinality(RanksBefore(grouped[c], j)) < 3

SelectedCount == Min2(3, Len(grouped.pt_tech)) + Min2(3, Len(grouped.global_tech))

\* the calls of generateArticleSummary that have returned, and those made
Returned == Len(draft.pt_tech) + Len(draft.global_tech)

Invocations == Returned + (IF pc = "summarize" THEN 1 ELSE 0)

\* C26: during assembly the Summarizer is called once per selected article
\* and for no other article, a call starts only after the previous one has
\* returned (at most one per-article request is in flight), and the calls of
\* one assembly number at most 3 times the number of categories.
C26_OneSequentialCallPerSelected ==
  /\ [](Assembling =>
          /\ Invocations <= 3 * Cardinality(DOMAIN grouped)
          /\ Returned + Len(pending) = SelectedCount
          /\ pc = "assemble" => sumPc = "idle")
  /\ [](sumPc = "await" => pc = "summarize" /\ requests = 1)
  /\ []((Assembled /\ pc = "save") => Returned = SelectedCount)
  /\ [][(pc = "assemble" /\ pc' = "summarize") =>
          /\ sumPc = "idle"
          /\ sumPc' = "start"
          /\ LET c == Head(pending).category
             IN  /\ IsSelected(c, article')
                 /\ \A i \in 1..Len(draft[c]) : draft[c][i].link # article'.originalLink]_vars

\* the third call of a category of four articles has its request in flight
\* after the first two returned
C26_Witness ==
  /\ pc = "summarize"
  /\ sumPc = "await"
  /\ requests = 1
  /\ Len(grouped.global_tech) = 4
  /\ Len(draft.global_tech) = 2
  /\ Invocations = 3
  /\ IsSelected("global_tech", article)
  /\ \E j \in 1..4 : ~IsSelected("global_tech", grouped.global_tech[j])

----------------------------------------------------------------------------
(* generateArticleSummary on an article with a one-sentence body, with an  *)
(* API key, for every generated text of up to MaxPadUnits units            *)

MaxPadUnits == 4

InitPad ==
  /\ \E t \in Titles : article = Article(t, <<"a", ".">>)
  /\ apiKey = TRUE
  /\ svcText \in Texts(GenUnits, MaxPadUnits)
  /\ sumPc = "start"
  /\ reply = "none"
  /\ summary = << >>
  /\ requests = 0
  /\ RunIdle
  /\ call = NoCall

SpecPad == InitPad /\ [][NextSummary]_vars

----------------------------------------------------------------------------
(* Claims about the padding of a short generated text, checked under       *)
(* SpecPad                                                                 *)

\* the non-blank lines of the generated text after the clean-up and the
\* selection of sentences or lines (the finalLines of line 1161)
UsableLines ==
  SelectNonBlank(SplitLines(SelectSentences(CleanSummary(svcText, article.title))))

\* the sanity check of lines 1189-1195 lets these lines through: the title
\* is not empty and neither it nor a "Title:" or "Content:" header occurs
KeptBySanityCheck(lines) ==
  /\ article.title # << >>
  /\ \A i \in 1..Len(lines) :
       /\ ~Includes(lines[i], article.title)
       /\ ~Includes(lines[i], <<"H">>)
       /\ ~Includes(lines[i], <<"K">>)

\* the service answered with a text of fewer than 3 usable lines that the
\* sanity check does not discard
ShortTextKept ==
  /\ sumPc = "done"
  /\ reply = "text"
  /\ Len(UsableLines) < 3
  /\ KeptBySanityCheck(UsableLines)

----------------------------------------------------------------------------
(* Claims about an article without body, checked under SpecUnusable *)

NoBody == article.content = << >>

\* C28: for an article without body text generateArticleSummary returns the
\* fixed 3-line "no content" placeholder and issues no request to the
\* generation service, with and without an API credential.
C28_NoBodyNoRequest ==
  (sumPc # "idle" /\ NoBody) =>
    /\ sumPc # "await"
    /\ requests = 0
    /\ reply = "none"
    /\ sumPc = "done" =>
         /\ summary = <<"N1", "NL", "N2", "NL", "N3">>
         /\ ExactlyThreeNonEmptyLines(summary)

\* the placeholder was returned although an API key is configured
C28_Witness ==
  /\ sumPc = "done"
  /\ NoBody
  /\ apiKey
  /\ article.title = <<"T">>
  /\ summary = NoContentSummary
  /\ requests = 0

----------------------------------------------------------------------------
(* Claims about the output groups, checked under SpecGroup *)

\* the ids of the articles of the input that have a link
LinkedIds ==
  {getArticleId(articles[i]) : i \in {j \in 1..Len(articles) : articles[j].link # ""}}

\* the places of the output groups
GroupPlaces == UNION {{<<c, i>> : i \in 1..Len(grouped[c])} : c \in DOMAIN grouped}

PlacesOf(id) == {p \in GroupPlaces : getArticleId(grouped[p[1]][p[2]]) = id}

----------------------------------------------------------------------------
(* The fetch handler while a generation with an API key runs: the report   *)
(* may come from the generation service                                    *)

InitLatest ==
  /\ apiKey = TRUE
  /\ SummarizerIdle
  /\ RunIdle
  /\ call = NoCall

NextLatest ==
  \/ fetch
  \/ RunReport
  \/ FetchHttpArticles
  \/ GroupArticles
  \/ CallHuggingFace
  \/ PrimaryResponds
  \/ BackupResponds
  \/ SummarizeNext
  \/ SumBegin
  \/ SumRespond
  \/ CollectSummary
  \/ FinishAssembly
  \/ SaveReport

SpecLatest == InitLatest /\ [][NextLatest]_vars

----------------------------------------------------------------------------
(* Claims about /latest-report, checked under SpecLatest *)

IsGetLatestReport(req) == req.path = "/latest-report" /\ req.method = "GET"

\* the Content-Type of each format
FormatType(format) ==
  CASE format = "json" -> "application/json"
    [] format = "html" -> "text/html"
    [] format = "text" -> "text/plain"

\* C30: GET /latest-report answers 404 while no run has saved a report to
\* REPORTS; once a run has saved its report it never answers 404: it serves
\* the report of the last completed run in the format asked for (json by
\* default, html or text) and answers 400 for any other format.
C30_LatestReportServedOnceSaved ==
  [][(Handled /\ IsGetLatestReport(request')) =>
       LET format == IF request'.format = "" THEN "json" ELSE request'.format
       IN  IF stored = {}
             THEN response'.status = 404
           ELSE IF format \in {"json", "html", "text"}
             THEN /\ response'.status = 200
                  /\ response'.type = FormatType(format)
                  /\ response'.report \in stored
           ELSE response'.status = 400]_vars

====
